---------------------------- MODULE Spec2Model ----------------------------
(***************************************************************************)
(* NutriAgent (arananet/cloudflare_agent_example): the MCP Streamable-HTTP *)
(* gateway (mcp/server.ts), the tool dispatcher (tools.ts), the MCP client *)
(* (mcp/client.ts), the A2A task endpoint (a2a/server.ts) and the          *)
(* NutriAgent Durable Object (agent/nutri-agent.ts).                       *)
(*                                                                         *)
(* JSON values are modelled as records of strings; a field that is missing *)
(* from the JSON (undefined / null) holds the string Absent.               *)
(***************************************************************************)
EXTENDS Integers, Sequences, FiniteSets, TLC

VARIABLES
    mcpKey,      \* env.MCP_API_KEY (Absent when the secret is not set)
    a2aKey,      \* env.A2A_API_KEY (Absent when the secret is not set)
    uuidCount,   \* number of crypto.randomUUID() values drawn in this isolate
    sessions,    \* mcp/server.ts: the keys of the `sessions` Map
    post,        \* the POST /mcp request suspended at an await, if any
    resp,        \* the latest HTTP response handleMcpRequest returned
    lastSession, \* the latest getOrCreateSession call: argument, result, Map before/after
    taskStore,   \* a2a/server.ts: the `taskStore` Map, task id -> Task
    calls,       \* the suspended handleSendMessage calls, task id -> locals
    a2aResp,     \* the latest HTTP response handleA2ARequest returned
    a2aSent,     \* task id -> the task the SendMessage response carried
    agent,       \* nutri-agent.ts: this.state.messages, this.mcpClient, this.llmTools
    loops,       \* the suspended handleChat / onRequest calls, utterance -> locals
    agentOut,    \* the latest response or error envelope (or HTTP response) of the agent
    loopEvent,   \* what the latest step of an orchestration loop did (bookkeeping
                 \* for the properties: no guard reads it)
    compare      \* tools.ts: the compareProducts call in progress, if any

vars == <<mcpKey, a2aKey, uuidCount, sessions, post, resp, lastSession,
          taskStore, calls, a2aResp, a2aSent, agent, loops, agentOut, loopEvent,
          compare>>

gatewayVars == <<post, resp, lastSession>>

a2aVars == <<taskStore, calls, a2aResp, a2aSent>>

agentVars == <<agent, loops, agentOut>>

toolVars == <<compare>>

----------------------------------------------------------------------------
(* Bounds of the model                                                     *)

\* at most this many envelopes in one batch body
MaxBatch == 2

\* at most this many randomUUID() draws (sessions minted) in one run of
\* SpecSessions, and in one run of SpecRpc
MaxUuid == 2

MaxRpcUuid == 1

\* at most this many tasks in the task store in one run of SpecA2A, and in
\* one run of SpecTask
MaxTasks == 2

MaxLoopTasks == 1

\* at most this many tool_calls in one backend message
MaxToolCalls == 1

\* in SpecA2A, where handlers run concurrently, the backend asks for tools in
\* at most this many rounds of one task; in SpecAgent in at most this many
\* rounds of one utterance; in SpecLoop its answers and those of the tools
\* are arbitrary in this many rounds of one utterance
MaxRounds == 1

\* at most this many utterances are in flight or in the persisted history
\* of the agent in one run of SpecAgent
MaxUtterances == 2

\* at most this many orchestration loops end with an answer or with a task
\* in one run of SpecLoop
MaxLoops == 1

\* at most this many tool_calls in one backend message to the agent in SpecLoop
MaxChatCalls == 2

\* at most this many barcodes in one compare_products call
MaxBarcodes == 3

----------------------------------------------------------------------------
(* JSON helpers                                                            *)

Absent == "absent"

\* JavaScript truthiness of a string-or-undefined value
Truthy(x) == x \notin {Absent, ""}

\* crypto.randomUUID(): the n-th value drawn; distinct draws are distinct
randomUUID(n) == "uuid-" \o ToString(n)

\* JSON.stringify(result, null, 2)
JSONstringify(v) == "json(" \o v \o ")"

RECURSIVE SeqFilterNonNull(_)
\* results.filter(r => r !== null)
SeqFilterNonNull(s) ==
    IF s = <<>> THEN <<>>
    ELSE IF Head(s).tag = "null" THEN SeqFilterNonNull(Tail(s))
         ELSE <<Head(s)>> \o SeqFilterNonNull(Tail(s))

----------------------------------------------------------------------------
(* mcp/server.ts: protocol constants and JSON-RPC helpers                  *)

MCP_PROTOCOL_VERSION == "2025-03-26"

\* mutant: the gateway lists a tool that the dispatcher does not have
MCP_TOOLS_WithExtra ==
    << "get_product_by_barcode", "search_products", "get_products_by_category",
       "compare_products", "get_allergen_info", "delete_everything" >>

\* the names of MCP_TOOLS, in catalog order
MCP_TOOLS ==
    << "get_product_by_barcode", "search_products", "get_products_by_category",
       "compare_products", "get_allergen_info" >>

McpToolNames == { MCP_TOOLS[i] : i \in 1..Len(MCP_TOOLS) }

\* tools.ts: the names of TOOL_DEFINITIONS, the static catalog, in order
TOOL_DEFINITIONS ==
    << "get_product_by_barcode", "search_products", "get_products_by_category",
       "compare_products", "get_allergen_info" >>

NoResult == [kind |-> "none", text |-> "", isError |-> FALSE]

\* the value handleRpcMethod returns for a notification method: null
NullResponse ==
    [jsonrpc |-> "2.0", id |-> "null", tag |-> "null", result |-> NoResult,
     code |-> 0, message |-> ""]

rpcOk(id, result) ==
    [jsonrpc |-> "2.0", id |-> id, tag |-> "result", result |-> result,
     code |-> 0, message |-> ""]

rpcError(id, code, message) ==
    [jsonrpc |-> "2.0", id |-> id, tag |-> "error", result |-> NoResult,
     code |-> code, message |-> message]

----------------------------------------------------------------------------
(* tools.ts: the dispatcher.  `src` is what the data source (OpenFoodFacts) *)
(* does for this lookup: [ok |-> TRUE, val |-> data] or                    *)
(* [ok |-> FALSE, val |-> failure text].                                   *)

DataSourceOutcomes ==
    { [ok |-> TRUE,  val |-> "product"],
      [ok |-> FALSE, val |-> "Product not found for barcode"] }

dispatchTool(name, args, src) ==
    CASE name = "get_product_by_barcode"   -> src
      [] name = "search_products"          -> src
      [] name = "get_products_by_category" -> src
      [] name = "compare_products"         -> src
      [] name = "get_allergen_info"        -> src
      [] OTHER -> [ok |-> FALSE, val |-> "Unknown tool: " \o name]

----------------------------------------------------------------------------
(* mcp/server.ts: session store                                            *)

\* mutant: a presented identifier is accepted without looking it up
getOrCreateSession_TrustsClient(sessionId, sess, n) ==
    IF Truthy(sessionId)
    THEN [id |-> sessionId, sessions |-> sess \cup {sessionId}, uuids |-> n]
    ELSE [id |-> randomUUID(n + 1),
          sessions |-> sess \cup {randomUUID(n + 1)},
          uuids |-> n + 1]

\* getOrCreateSession(sessionId) on the Map `sess` after n randomUUID draws:
\* the identifier returned, the Map afterwards and the draws afterwards
getOrCreateSession(sessionId, sess, n) ==
    IF Truthy(sessionId) /\ sessionId \in sess
    THEN [id |-> sessionId, sessions |-> sess, uuids |-> n]
    ELSE [id |-> randomUUID(n + 1),
          sessions |-> sess \cup {randomUUID(n + 1)},
          uuids |-> n + 1]

----------------------------------------------------------------------------
(* mcp/server.ts: tools/call and the method dispatcher.  A handler that    *)
(* reaches `await dispatchTool(...)` is suspended there ("pending") until  *)
(* the data source answers; every other path resolves at once ("done").    *)

\* `ran`: dispatchTool was called; `out`: what it returned or threw
NoOutcome == [ok |-> FALSE, val |-> Absent]

Done(res) == [st |-> "done", res |-> res, ran |-> FALSE, out |-> NoOutcome]

Thrown == [st |-> "thrown", res |-> NullResponse, ran |-> FALSE, out |-> NoOutcome]

PendingTool == [st |-> "pending", res |-> NullResponse, ran |-> TRUE, out |-> NoOutcome]

Settled(res, out) == [st |-> "done", res |-> res, ran |-> TRUE, out |-> out]

\* mutant: the "Verify tool exists" check is missing
handleToolCallStart_NoCatalogCheck(id, params) ==
    IF ~params.has \/ ~Truthy(params.name)
    THEN Done(rpcError(id, -32602, "Missing required parameter: name"))
    ELSE PendingTool

\* handleToolCall up to the call of dispatchTool
handleToolCallStart(id, params) ==
    IF ~params.has \/ ~Truthy(params.name)
    THEN Done(rpcError(id, -32602, "Missing required parameter: name"))
    ELSE IF params.name \notin McpToolNames
         THEN Done(rpcError(id, -32602, "Unknown tool: " \o params.name))
         ELSE PendingTool

\* mutant: the catch block answers with a JSON-RPC error object
handleToolCallFinish_ErrorObject(id, out) ==
    IF out.ok
    THEN rpcOk(id, [kind |-> "content", text |-> JSONstringify(out.val),
                    isError |-> FALSE])
    ELSE rpcError(id, -32603, "Error: " \o out.val)

\* handleToolCall from the return (or throw) of dispatchTool: `out` is its outcome
handleToolCallFinish(id, out) ==
    IF out.ok
    THEN rpcOk(id, [kind |-> "content", text |-> JSONstringify(out.val),
                    isError |-> FALSE])
    ELSE rpcOk(id, [kind |-> "content", text |-> "Error: " \o out.val,
                    isError |-> TRUE])

\* const id = req.id ?? null
ResponseId(req) == IF req.id = Absent THEN "null" ELSE req.id

\* handleRpcMethod(req) up to its first suspension.  Reading req.id of a JSON
\* null throws a TypeError inside the async function: its promise rejects.
handleRpcMethod(req) ==
    IF req.shape = "null" THEN Thrown
    ELSE IF req.method = "notifications/initialized" THEN Done(NullResponse)
    ELSE IF req.method = "notifications/cancelled" THEN Done(NullResponse)
    ELSE CASE req.method = "initialize" ->
                Done(rpcOk(ResponseId(req),
                     [kind |-> "initialize", text |-> MCP_PROTOCOL_VERSION,
                      isError |-> FALSE]))
           [] req.method = "ping" ->
                Done(rpcOk(ResponseId(req),
                     [kind |-> "empty", text |-> "", isError |-> FALSE]))
           [] req.method = "tools/list" ->
                Done(rpcOk(ResponseId(req),
                     [kind |-> "tools", text |-> "MCP_TOOLS", isError |-> FALSE]))
           [] req.method = "tools/call" ->
                handleToolCallStart(ResponseId(req), req.params)
           [] OTHER ->
                Done(rpcError(ResponseId(req), -32601,
                              "Method not found: " \o req.method))

----------------------------------------------------------------------------
(* mcp/server.ts: HTTP responses                                           *)

\* the body of a request whose body the handler has not read
NoBody == [kind |-> "none", items |-> <<>>]

NoRequest ==
    [verb |-> "none", auth |-> [scheme |-> "none", token |-> ""],
     sid |-> Absent, ctype |-> Absent, body |-> NoBody]

\* no response was returned by the latest step
NoResponse ==
    [status |-> 0, sessionHeader |-> Absent, bodyKind |-> "none", body |-> <<>>,
     req |-> NoRequest, results |-> <<>>, ran |-> <<>>, outs |-> <<>>]

\* mutant: the 202 Accepted response is built without its headers
Response_BareAccepted(req, status, sessionHeader, bodyKind, body) ==
    [status |-> status,
     sessionHeader |-> IF status = 202 THEN Absent ELSE sessionHeader,
     bodyKind |-> bodyKind, body |-> body, req |-> req, results |-> <<>>,
     ran |-> <<>>, outs |-> <<>>]

\* a Response: status, Mcp-Session-Id header (Absent when not set), body
Response(req, status, sessionHeader, bodyKind, body) ==
    [status |-> status, sessionHeader |-> sessionHeader, bodyKind |-> bodyKind,
     body |-> body, req |-> req, results |-> <<>>, ran |-> <<>>, outs |-> <<>>]

\* no Response yet: the request passed the auth gate and the handler is
\* suspended at `await request.json()`
Accepted(req) == [NoResponse EXCEPT !.req = req]

\* the promise handleMcpRequest returned rejects: the handler returns no Response
Rejected(req, items) ==
    [status |-> -1, sessionHeader |-> Absent, bodyKind |-> "thrown", body |-> <<>>,
     req |-> req, results |-> <<>>,
     ran |-> [i \in 1..Len(items) |-> items[i].ran], outs |-> <<>>]

\* mutant: the gate looks at the scheme only
checkMcpAuthRejects_AnyBearer(req, key) ==
    /\ Truthy(key)
    /\ req.auth.scheme /= "Bearer"

\* checkMcpAuth(request, env): TRUE when it returns a 401 Response
checkMcpAuthRejects(req, key) ==
    /\ Truthy(key)
    /\ \/ req.auth.scheme /= "Bearer"
       \/ req.auth.token /= key

checkMcpAuth(req, key) ==
    IF req.auth.scheme /= "Bearer"
    THEN Response(req, 401, Absent, "object",
                  << rpcError("null", -32001, "Unauthorized: Bearer token required") >>)
    ELSE Response(req, 401, Absent, "object",
                  << rpcError("null", -32001, "Unauthorized: invalid token") >>)

\* the Response of the POST path once every handleRpcMethod promise has resolved
PostResponse(req, sessionId, items) ==
    LET results == [i \in 1..Len(items) |-> items[i].res]
        ran     == [i \in 1..Len(items) |-> items[i].ran]
        outs    == [i \in 1..Len(items) |-> items[i].out]
        base    ==
            IF req.body.kind = "batch"
            THEN LET responses == SeqFilterNonNull(results)
                 IN  IF Len(responses) = 0
                     THEN Response(req, 202, sessionId, "none", <<>>)
                     ELSE Response(req, 200, sessionId, "array", responses)
            ELSE IF results[1].tag = "null"
                 THEN Response(req, 202, sessionId, "none", <<>>)
                 ELSE Response(req, 200, sessionId, "object", <<results[1]>>)
    IN  [base EXCEPT !.results = results, !.ran = ran, !.outs = outs]

----------------------------------------------------------------------------
(* Requests a client of POST/GET/DELETE /mcp can send                      *)

RpcIds == {"a", "b"}

RpcMethods ==
    { "initialize", "ping", "tools/list", "tools/call",
      "notifications/initialized", "notifications/cancelled",
      "resources/list", Absent }

NoParams == [has |-> FALSE, name |-> Absent, arguments |-> Absent]

\* params of tools/call: a catalog name, a name outside the catalog, or none
ToolParams ==
    { [has |-> TRUE, name |-> n, arguments |-> a] :
        n \in McpToolNames \cup {"delete_everything", Absent},
        a \in {Absent, "{barcode}"} }

\* the JSON value null where an envelope is expected
NullEnvelope ==
    [shape |-> "null", jsonrpc |-> Absent, id |-> Absent, method |-> Absent,
     params |-> NoParams]

\* a JSON number or string where an envelope is expected: reading any
\* property of it gives undefined
ScalarEnvelope ==
    [shape |-> "scalar", jsonrpc |-> Absent, id |-> Absent, method |-> Absent,
     params |-> NoParams]

\* what a body can carry as its protocol tag: "2.0", another version, none
RpcTags == {"2.0", "1.0", Absent}

Ping(id) ==
    [shape |-> "object", jsonrpc |-> "2.0", id |-> id, method |-> "ping",
     params |-> NoParams]

\* objects that are not JSON-RPC 2.0 envelopes: the protocol tag is missing or
\* wrong, or the method is missing
MalformedEnvelopes ==
    { [Ping("a") EXCEPT !.jsonrpc = t, !.method = m] :
        t \in RpcTags \ {"2.0"}, m \in {"ping", "resources/list", Absent} }

Envelopes ==
    { [shape |-> "object", jsonrpc |-> "2.0", id |-> i, method |-> m,
       params |-> NoParams] :
        i \in RpcIds \cup {Absent}, m \in RpcMethods }
    \cup
    { [shape |-> "object", jsonrpc |-> "2.0", id |-> i, method |-> "tools/call",
       params |-> p] :
        i \in RpcIds \cup {Absent}, p \in ToolParams }
    \cup MalformedEnvelopes
    \cup {NullEnvelope, ScalarEnvelope}

Lookup(id) ==
    [shape |-> "object", jsonrpc |-> "2.0", id |-> id, method |-> "tools/call",
     params |-> [has |-> TRUE, name |-> "get_product_by_barcode",
                 arguments |-> "{barcode}"]]

\* the envelopes batch bodies are built from: with and without an identifier,
\* a method answered at once, a notification method and a tool execution;
\* an unknown method; the JSON value null
BatchEnvelopes ==
    { Ping(i) : i \in RpcIds \cup {Absent} }
    \cup { [Ping(i) EXCEPT !.method = "notifications/initialized"] :
             i \in RpcIds \cup {Absent} }
    \cup { Lookup(i) : i \in RpcIds \cup {Absent} }
    \cup { [Ping("a") EXCEPT !.method = "resources/list"], NullEnvelope }

RECURSIVE SeqsUpTo(_, _)
\* the sequences over S of length at most n
SeqsUpTo(S, n) ==
    IF n = 0 THEN { <<>> }
    ELSE LET shorter == SeqsUpTo(S, n - 1)
         IN  shorter \cup { Append(q, e) : q \in shorter, e \in S }

\* what request.json() can settle with
Bodies ==
    { [kind |-> "unparsable", items |-> <<>>] }
    \cup { [kind |-> "single", items |-> <<e>>] : e \in Envelopes }
    \cup { [kind |-> "batch", items |-> q] : q \in SeqsUpTo(BatchEnvelopes, MaxBatch) }

\* the bodies of the requests that run while other requests are served
SessionBodies ==
    { [kind |-> "unparsable", items |-> <<>>],
      [kind |-> "single", items |-> <<Ping("a")>>],
      [kind |-> "single", items |-> <<Lookup("a")>>],
      [kind |-> "single", items |-> <<NullEnvelope>>],
      [kind |-> "batch", items |-> <<>>],
      [kind |-> "batch", items |-> <<Ping("a")>>],
      [kind |-> "batch", items |-> <<Lookup("a"), Ping("b")>>] }

Auths ==
    { [scheme |-> "none",   token |-> ""],
      [scheme |-> "Bearer", token |-> "secret"],
      [scheme |-> "Bearer", token |-> "wrong"],
      [scheme |-> "Basic",  token |-> "secret"] }

\* the Mcp-Session-Id a client may present: none, one the gateway issued
\* (still registered or closed since), or one it never issued
PresentableSessionIds(n) ==
    {Absent, "forged"} \cup { randomUUID(k) : k \in 1..n }

\* the requests, as far as the handler reads them before `await request.json()`
McpRequests(n) ==
    { [verb |-> v, auth |-> a, sid |-> s, ctype |-> Absent, body |-> NoBody] :
        v \in {"GET", "DELETE", "PUT"}, a \in Auths, s \in PresentableSessionIds(n) }
    \cup
    { [verb |-> "POST", auth |-> a, sid |-> s, ctype |-> c, body |-> NoBody] :
        a \in Auths, s \in PresentableSessionIds(n),
        c \in {"application/json", "text/plain"} }

----------------------------------------------------------------------------
(* State of the gateway                                                    *)

\* the suspended POST: the request as far as its continuation reads it (the
\* Mcp-Session-Id header and the body), the session of the single path, and
\* the handleRpcMethod promises
NoPost == [pc |-> "idle", sid |-> Absent, body |-> NoBody, sessionId |-> Absent,
           items |-> <<>>]

PostRequest(p) ==
    [verb |-> "POST", auth |-> [scheme |-> "passed", token |-> ""], sid |-> p.sid,
     ctype |-> "application/json", body |-> p.body]

NoSessionCall ==
    [called |-> FALSE, presented |-> Absent, returned |-> Absent,
     before |-> {}, after |-> {}]

SessionCall(presented, sess, gs) ==
    [called |-> TRUE, presented |-> presented, returned |-> gs.id,
     before |-> sess, after |-> gs.sessions]

InitGateway ==
    /\ mcpKey \in {Absent, "secret"}
    /\ uuidCount = 0
    /\ sessions = {}
    /\ post = NoPost
    /\ resp = NoResponse
    /\ lastSession = NoSessionCall

\* getOrCreateSession(sid) is run while it draws no identifier beyond the bound
CanResolve(sid, max) == (Truthy(sid) /\ sid \in sessions) \/ uuidCount < max

----------------------------------------------------------------------------
(* handleMcpRequest.  A GET, a DELETE and every rejected request run to    *)
(* their Response without suspending; an accepted POST suspends at         *)
(* `await request.json()` and again while tool executors run.              *)

\* mutant: closing a session clears the whole Map
closeSession_Clear(sessionId, sess) ==
    IF Truthy(sessionId) THEN {} ELSE sess

\* DELETE /mcp: if (sessionId) sessions.delete(sessionId)
closeSession(sessionId, sess) ==
    IF Truthy(sessionId) THEN sess \ {sessionId} ELSE sess

\* handleMcpRequest for a request that is answered without suspending:
\* the auth gate, GET, DELETE, other verbs, the Content-Type check
HandleMcpRequestSync(req, max) ==
    /\ (req.verb = "POST" /\ req.ctype = "application/json")
          => checkMcpAuthRejects(req, mcpKey)
    /\ IF checkMcpAuthRejects(req, mcpKey)
       THEN /\ resp' = checkMcpAuth(req, mcpKey)
            /\ lastSession' = NoSessionCall
            /\ UNCHANGED <<sessions, uuidCount>>
       ELSE CASE req.verb = "GET" ->
                   /\ CanResolve(req.sid, max)
                   /\ LET gs == getOrCreateSession(req.sid, sessions, uuidCount)
                      IN  /\ sessions' = gs.sessions
                          /\ uuidCount' = gs.uuids
                          /\ lastSession' = SessionCall(req.sid, sessions, gs)
                          /\ resp' = Response(req, 200, gs.id, "stream", <<>>)
              [] req.verb = "DELETE" ->
                   /\ sessions' = closeSession(req.sid, sessions)
                   /\ resp' = Response(req, 204, Absent, "none", <<>>)
                   /\ lastSession' = NoSessionCall
                   /\ UNCHANGED uuidCount
              [] req.verb \notin {"GET", "DELETE", "POST"} ->
                   /\ resp' = Response(req, 405, Absent, "text", <<>>)
                   /\ lastSession' = NoSessionCall
                   /\ UNCHANGED <<sessions, uuidCount>>
              [] OTHER ->
                   /\ resp' = Response(req, 415, Absent, "object",
                         << rpcError("null", -32700,
                                     "Content-Type must be application/json") >>)
                   /\ lastSession' = NoSessionCall
                   /\ UNCHANGED <<sessions, uuidCount>>
    /\ UNCHANGED <<mcpKey, post>>

\* handleMcpRequest for a POST that passes the gate, up to `await request.json()`
HandleMcpRequestPost(req) ==
    /\ req.verb = "POST"
    /\ req.ctype = "application/json"
    /\ ~checkMcpAuthRejects(req, mcpKey)
    /\ post.pc = "idle"
    /\ post' = [NoPost EXCEPT !.pc = "json", !.sid = req.sid]
    /\ resp' = Accepted(req)
    /\ lastSession' = NoSessionCall
    /\ UNCHANGED <<mcpKey, sessions, uuidCount>>

\* request.json() settles with `body`: parse error, or the batch / single path
\* up to the await of the handleRpcMethod promises
HandleMcpRequestBody(body, max) ==
    /\ post.pc = "json"
    /\ body.kind = "single" => CanResolve(post.sid, max)
    /\ LET read  == [post EXCEPT !.body = body]
           req   == PostRequest(read)
           items == [i \in 1..Len(body.items) |-> handleRpcMethod(body.items[i])]
           threw == \E i \in 1..Len(items) : items[i].st = "thrown"
       IN  CASE body.kind = "unparsable" ->
                   /\ resp' = Response(req, 400, Absent, "object",
                                       << rpcError("null", -32700, "Parse error") >>)
                   /\ post' = NoPost
                   /\ lastSession' = NoSessionCall
                   /\ UNCHANGED <<sessions, uuidCount>>
              [] body.kind = "batch" ->
                   \* Promise.all rejects with the first rejection; the await throws
                   /\ IF threw
                      THEN /\ resp' = Rejected(req, items)
                           /\ post' = NoPost
                      ELSE /\ resp' = NoResponse
                           /\ post' = [read EXCEPT !.pc = "run", !.items = items]
                   /\ lastSession' = NoSessionCall
                   /\ UNCHANGED <<sessions, uuidCount>>
              [] body.kind = "single" ->
                   LET gs == getOrCreateSession(post.sid, sessions, uuidCount)
                   IN  /\ sessions' = gs.sessions
                       /\ uuidCount' = gs.uuids
                       /\ lastSession' = SessionCall(post.sid, sessions, gs)
                       /\ IF threw
                          THEN /\ resp' = Rejected(req, items)
                               /\ post' = NoPost
                          ELSE /\ resp' = NoResponse
                               /\ post' = [read EXCEPT !.pc = "run", !.items = items,
                                                       !.sessionId = gs.id]
    /\ UNCHANGED mcpKey

\* Promise.all keeps each result at the index of its promise
PromiseAllSettle(items, i, item) == [items EXCEPT ![i] = item]

\* the data source answers the lookup of item i: dispatchTool returns or throws
\* and handleToolCall builds the item's response
ToolExecutorSettles(i, src) ==
    /\ post.pc = "run"
    /\ i \in 1..Len(post.items)
    /\ post.items[i].st = "pending"
    /\ LET e   == post.body.items[i]
           out == dispatchTool(e.params.name, e.params.arguments, src)
       IN  post' = [post EXCEPT !.items =
                       PromiseAllSettle(post.items, i,
                           Settled(handleToolCallFinish(ResponseId(e), out), out))]
    /\ resp' = NoResponse
    /\ lastSession' = NoSessionCall
    /\ UNCHANGED <<mcpKey, sessions, uuidCount>>

\* every handleRpcMethod promise has resolved: the Response is built
\* (the batch path calls getOrCreateSession only now)
HandleMcpRequestRespond(max) ==
    /\ post.pc = "run"
    /\ post.body.kind = "batch" => CanResolve(post.sid, max)
    /\ \A i \in 1..Len(post.items) : post.items[i].st = "done"
    /\ IF post.body.kind = "batch"
       THEN LET gs == getOrCreateSession(post.sid, sessions, uuidCount)
            IN  /\ sessions' = gs.sessions
                /\ uuidCount' = gs.uuids
                /\ lastSession' = SessionCall(post.sid, sessions, gs)
                /\ resp' = PostResponse(PostRequest(post), gs.id, post.items)
       ELSE /\ resp' = PostResponse(PostRequest(post), post.sessionId, post.items)
            /\ lastSession' = NoSessionCall
            /\ UNCHANGED <<sessions, uuidCount>>
    /\ post' = NoPost
    /\ UNCHANGED mcpKey

----------------------------------------------------------------------------
(* Specifications of the gateway                                           *)

\* SpecRpc: requests are served one after the other, with every body of Bodies
NextRpc ==
    /\ \/ /\ post.pc = "idle"
          /\ \E req \in McpRequests(uuidCount) : HandleMcpRequestSync(req, MaxRpcUuid)
       \/ \E req \in McpRequests(uuidCount) : HandleMcpRequestPost(req)
       \/ \E body \in Bodies : HandleMcpRequestBody(body, MaxRpcUuid)
       \/ \E i \in 1..MaxBatch, src \in DataSourceOutcomes : ToolExecutorSettles(i, src)
       \/ HandleMcpRequestRespond(MaxRpcUuid)
    /\ UNCHANGED <<a2aKey, a2aVars, agentVars, loopEvent, toolVars>>

\* SpecSessions: GET, DELETE and rejected requests are served while a POST is
\* suspended.  Handlers interact only through `sessions`, which a POST changes
\* only by minting, as a GET does: one suspended POST stands for all of them.
NextSessions ==
    /\ \/ \E req \in McpRequests(uuidCount) : HandleMcpRequestSync(req, MaxUuid)
       \/ \E req \in McpRequests(uuidCount) : HandleMcpRequestPost(req)
       \/ \E body \in SessionBodies : HandleMcpRequestBody(body, MaxUuid)
       \/ \E i \in 1..MaxBatch, src \in DataSourceOutcomes : ToolExecutorSettles(i, src)
       \/ HandleMcpRequestRespond(MaxUuid)
    /\ UNCHANGED <<a2aKey, a2aVars, agentVars, loopEvent, toolVars>>

----------------------------------------------------------------------------
(* mcp/client.ts: McpClient.  The gateway is reached through fetch; `net`  *)
(* says whether the request reaches it, `src` what the data source does    *)
(* when the request runs a tool executor.                                  *)

\* a new McpClient: sessionId = null, initialized = false
NewMcpClient == [sessionId |-> Absent, initialized |-> FALSE]

\* the JSON-RPC body McpClient.rpc builds: id and params only when given
ClientEnvelope(method, params, id) ==
    [shape |-> "object", jsonrpc |-> "2.0", id |-> id, method |-> method,
     params |-> params]

\* what the gateway does with one POST of McpClient.rpc: the client sends
\* Content-Type application/json and env.MCP_API_KEY as Bearer token (none
\* when the key is not set), so the request passes checkMcpAuth and takes
\* the single-request path
GatewayServes(envelope, sid, key, sess, n, src) ==
    LET req   == [verb |-> "POST",
                  auth |-> IF Truthy(key) THEN [scheme |-> "Bearer", token |-> key]
                           ELSE [scheme |-> "none", token |-> ""],
                  sid |-> sid, ctype |-> "application/json",
                  body |-> [kind |-> "single", items |-> <<envelope>>]]
        gs    == getOrCreateSession(sid, sess, n)
        first == handleRpcMethod(envelope)
        item  == IF first.st = "pending"
                 THEN LET out == dispatchTool(envelope.params.name,
                                              envelope.params.arguments, src)
                      IN  Settled(handleToolCallFinish(ResponseId(envelope), out), out)
                 ELSE first
    IN  [res |-> IF checkMcpAuthRejects(req, key) THEN checkMcpAuth(req, key)
                 ELSE PostResponse(req, gs.id, <<item>>),
         sessions |-> IF checkMcpAuthRejects(req, key) THEN sess ELSE gs.sessions,
         uuids |-> IF checkMcpAuthRejects(req, key) THEN n ELSE gs.uuids]

\* the outcomes of fetch(): the Response arrives, or fetch rejects
NetOutcomes == {"served", "unreachable"}

\* McpClient.rpc from the settling of fetch: the session captured, and the
\* value returned ("null" for a 202) or the Error thrown
McpClientRpc(client, net, res) ==
    IF net = "unreachable"
    THEN [client |-> client, threw |-> TRUE, err |-> "fetch failed",
          result |-> NoResult]
    ELSE LET captured == IF Truthy(res.sessionHeader)
                         THEN [client EXCEPT !.sessionId = res.sessionHeader]
                         ELSE client
         IN  IF res.status = 202
             THEN [client |-> captured, threw |-> FALSE, err |-> "",
                   result |-> [kind |-> "null", text |-> "", isError |-> FALSE]]
             ELSE IF res.status /= 200
             THEN [client |-> captured, threw |-> TRUE,
                   err |-> "MCP server " \o ToString(res.status),
                   result |-> NoResult]
             ELSE IF res.body[1].tag = "error"
             THEN [client |-> captured, threw |-> TRUE,
                   err |-> "MCP error " \o ToString(res.body[1].code) \o ": "
                           \o res.body[1].message,
                   result |-> NoResult]
             ELSE [client |-> captured, threw |-> FALSE, err |-> "",
                   result |-> res.body[1].result]

\* McpClient.callTool from the return of rpc("tools/call"): the text of the
\* result, thrown as an Error when the result is flagged isError
McpClientCallTool(r) ==
    IF r.threw THEN [threw |-> TRUE, text |-> r.err]
    ELSE IF r.result.isError THEN [threw |-> TRUE, text |-> r.result.text]
    ELSE [threw |-> FALSE, text |-> r.result.text]

----------------------------------------------------------------------------
(* a2a/server.ts: task records, the LLM helper and the JSON-RPC envelope   *)
(* of /a2a.  The timestamp of a status is left out of the records.         *)

\* let iterations = 8
iterations == 8

NoStatusMessage ==
    [has |-> FALSE, role |-> Absent, text |-> "", messageId |-> Absent]

NoTask ==
    [id |-> Absent, contextId |-> Absent, state |-> "none", artifacts |-> <<>>,
     message |-> NoStatusMessage]

\* mutant: the task is created in state submitted
workingTask_Submitted(taskId, contextId) ==
    [id |-> taskId, contextId |-> contextId, state |-> "submitted",
     message |-> NoStatusMessage, artifacts |-> <<>>]

\* const task: Task = { id, contextId, status: { state: "working" } }
workingTask(taskId, contextId) ==
    [id |-> taskId, contextId |-> contextId, state |-> "working",
     artifacts |-> <<>>, message |-> NoStatusMessage]

completedTask(taskId, contextId, responseText, artifactId) ==
    [id |-> taskId, contextId |-> contextId, state |-> "completed",
     artifacts |-> << [artifactId |-> artifactId, name |-> "response",
                       text |-> responseText] >>,
     message |-> NoStatusMessage]

\* mutant: the catch block stores the task without changing its state
failedTask_StillWorking(taskId, contextId, err, messageId) ==
    [id |-> taskId, contextId |-> contextId, state |-> "working",
     artifacts |-> <<>>,
     message |-> [has |-> TRUE, role |-> "agent", text |-> "Error: " \o err,
                  messageId |-> messageId]]

failedTask(taskId, contextId, err, messageId) ==
    [id |-> taskId, contextId |-> contextId, state |-> "failed",
     artifacts |-> <<>>,
     message |-> [has |-> TRUE, role |-> "agent", text |-> "Error: " \o err,
                  messageId |-> messageId]]

\* an empty Map
EmptyMap == [k \in {} |-> NoTask]

\* Map.set(key, value) and the removal of a key
MapSet(map, key, value) == [k \in DOMAIN map \cup {key} |->
                               IF k = key THEN value ELSE map[k]]

MapDelete(map, key) == [k \in DOMAIN map \ {key} |-> map[k]]

\* The randomUUID draws made for one task: taskId, contextId, the session the
\* gateway mints for the task's McpClient, and artifactId or messageId.  The
\* values are opaque and pairwise distinct; the draws of a task created after
\* n earlier draws are named n+1 .. n+TaskUuids, in their order in the task.
TaskUuids == 4

TaskUuid(n, j) == randomUUID(n + j)

\* mutant: the task identifier is not drawn afresh
NewTaskId_Reused(n) == randomUUID(1)

\* const taskId = crypto.randomUUID(), after n earlier draws
NewTaskId(n) == TaskUuid(n, 1)

\* mutant: GetTask answers with the record as it was created
handleGetTask_AsCreated(params, store) ==
    IF params.has /\ params.id \in DOMAIN store
    THEN [threw |-> FALSE, err |-> "",
          task |-> workingTask(params.id, store[params.id].contextId)]
    ELSE [threw |-> TRUE,
          err |-> IF params.has THEN "Task not found: " \o params.id
                  ELSE "TypeError",
          task |-> NoTask]

\* mutant: a missing task is returned as an empty result, as Map.get gives it
handleGetTask_Undefined(params, store) ==
    IF params.has /\ params.id \in DOMAIN store
    THEN [threw |-> FALSE, err |-> "", task |-> store[params.id]]
    ELSE [threw |-> ~params.has,
          err |-> IF params.has THEN "" ELSE "TypeError",
          task |-> NoTask]

\* handleGetTask(params) on the Map `store`; reading params.id of a missing
\* params throws a TypeError
handleGetTask(params, store) ==
    IF params.has /\ params.id \in DOMAIN store
    THEN [threw |-> FALSE, err |-> "", task |-> store[params.id]]
    ELSE [threw |-> TRUE,
          err |-> IF params.has THEN "Task not found: " \o params.id
                  ELSE "TypeError",
          task |-> NoTask]

\* the tool calls of a backend message whose arguments are JSON: a catalog
\* tool and a tool outside the catalog
ToolCalls ==
    { [name |-> n, arguments |-> "{barcode}"] :
        n \in {"get_product_by_barcode", "delete_everything"} }

\* what the chat-completions backend can do: fetch rejects, a non-success
\* status, a body without choices, or a message: content, reasoning_content
\* and the length of tool_calls (0 for a missing tool_calls as well)
LLMOutcomesUpTo(max) ==
    { [kind |-> k, content |-> Absent, reasoning |-> Absent, toolCalls |-> 0] :
        k \in {"unreachable", "status", "nochoices"} }
    \cup
    { [kind |-> "message", content |-> c, reasoning |-> r, toolCalls |-> n] :
        c \in {Absent, "answer"}, r \in {Absent, "thinking"},
        n \in 0..max }

LLMOutcomes == LLMOutcomesUpTo(MaxToolCalls)

\* callLLM from the settling of its fetch: the message returned or the Error
callLLM(out) ==
    CASE out.kind = "unreachable" ->
           [threw |-> TRUE, err |-> "fetch failed", content |-> Absent, toolCalls |-> 0]
      [] out.kind = "status" ->
           [threw |-> TRUE, err |-> "GLM API 500", content |-> Absent, toolCalls |-> 0]
      [] out.kind = "nochoices" ->
           [threw |-> TRUE, err |-> "TypeError", content |-> Absent, toolCalls |-> 0]
      [] OTHER ->
           [threw |-> FALSE, err |-> "",
            content |-> IF ~Truthy(out.content) /\ Truthy(out.reasoning)
                        THEN out.reasoning ELSE out.content,
            toolCalls |-> out.toolCalls]

----------------------------------------------------------------------------
(* Requests a client of /a2a can send, and the Responses of the endpoint   *)

NoA2AParams == [has |-> FALSE, parts |-> <<>>, contextId |-> Absent, id |-> Absent]

\* the parts of a user message: text parts and parts of another kind
MessageParts ==
    { <<>>,
      << [kind |-> "file", text |-> Absent] >>,
      << [kind |-> "text", text |-> ""] >>,
      << [kind |-> "text", text |-> " "] >>,
      << [kind |-> "text", text |-> " "], [kind |-> "text", text |-> ""] >>,
      << [kind |-> "text", text |-> "hello"] >>,
      << [kind |-> "file", text |-> Absent], [kind |-> "text", text |-> "hello"] >>,
      << [kind |-> "text", text |-> "hello"], [kind |-> "text", text |-> " "] >> }

RECURSIVE TextParts(_)
\* parts.filter(p => "text" in p).map(p => p.text)
TextParts(parts) ==
    IF parts = <<>> THEN <<>>
    ELSE IF Head(parts).kind = "text"
         THEN <<Head(parts).text>> \o TextParts(Tail(parts))
         ELSE TextParts(Tail(parts))

RECURSIVE Join(_)
\* texts.join("\n")
Join(texts) ==
    IF texts = <<>> THEN ""
    ELSE IF Len(texts) = 1 THEN Head(texts)
         ELSE Head(texts) \o "\n" \o Join(Tail(texts))

\* the strings made of white space only, among those Join builds here
Trim(text) == IF text \in {"", " ", " \n", "\n", "\n "} THEN "" ELSE text

A2ABody(id, method, params) ==
    [kind |-> "object", jsonrpc |-> "2.0", id |-> id, method |-> method,
     params |-> params]

\* what request.json() of a POST /a2a can settle with (it rejects for an
\* unparsable body; null, a number or string and an array are JSON values
\* without members jsonrpc, method, id); `known` are the task identifiers a
\* client can have learnt
A2ABodies(known) ==
    { [A2ABody(Absent, Absent, NoA2AParams) EXCEPT !.kind = k, !.jsonrpc = Absent] :
        k \in {"unparsable", "null", "scalar", "array"} }
    \cup { [A2ABody("r1", "GetTask", NoA2AParams) EXCEPT !.jsonrpc = "1.0"],
           A2ABody(Absent, Absent, NoA2AParams),
           A2ABody("r1", "CancelTask", NoA2AParams),
           A2ABody("r1", "GetTask", NoA2AParams),
           A2ABody("r1", "SendMessage", NoA2AParams) }
    \cup { A2ABody("r1", "GetTask", [NoA2AParams EXCEPT !.has = TRUE, !.id = t]) :
             t \in known \cup {"unknown"} }
    \cup { A2ABody("r1", "SendMessage",
                   [NoA2AParams EXCEPT !.has = TRUE, !.parts = q, !.contextId = c]) :
             q \in MessageParts, c \in {Absent, "ctx-1"} }

A2AAuths ==
    { [scheme |-> "none",   token |-> ""],
      [scheme |-> "Bearer", token |-> "a2a-secret"],
      [scheme |-> "Bearer", token |-> "wrong"],
      [scheme |-> "Basic",  token |-> "a2a-secret"] }

A2ARequests(known) ==
    { [verb |-> v, auth |-> a, body |-> A2ABody(Absent, Absent, NoA2AParams)] :
        v \in {"OPTIONS", "GET"}, a \in A2AAuths }
    \cup { [verb |-> "POST", auth |-> a, body |-> b] :
             a \in A2AAuths, b \in A2ABodies(known) }

NoA2ARequest ==
    [verb |-> "none", auth |-> [scheme |-> "none", token |-> ""],
     body |-> A2ABody(Absent, Absent, NoA2AParams)]

\* a Response of handleA2ARequest: status, and of its JSON body the id and
\* either the error (code, message) or the result (a task)
A2AResponse(req, status, kind, id, code, message, task) ==
    [status |-> status, kind |-> kind, id |-> id, code |-> code,
     message |-> message, task |-> task, req |-> req]

\* no response was returned by the latest step
NoA2AResponse == A2AResponse(NoA2ARequest, 0, "none", Absent, 0, "", NoTask)

\* no Response yet: the request was dispatched to handleSendMessage, which
\* is suspended
A2AAccepted(req) == [NoA2AResponse EXCEPT !.req = req]

\* checkA2AAuth(request, env): TRUE when it returns a 401 Response
checkA2AAuthRejects(req, key) ==
    /\ Truthy(key)
    /\ \/ req.auth.scheme /= "Bearer"
       \/ req.auth.token /= key

checkA2AAuth(req, key) ==
    IF req.auth.scheme /= "Bearer"
    THEN A2AResponse(req, 401, "error", "null", -32001,
                     "Unauthorized: Bearer token required", NoTask)
    ELSE A2AResponse(req, 401, "error", "null", -32001,
                     "Unauthorized: invalid token", NoTask)

\* the catch of the dispatch: the Error becomes a JSON-RPC error, status 200
A2ADispatchError(req, err) ==
    A2AResponse(req, 200, "error", req.body.id, -32000, err, NoTask)

\* Response.json({ jsonrpc: "2.0", id: rpcReq.id, result })
A2AResult(req, task) ==
    A2AResponse(req, 200, "result", req.body.id, 0, "", task)

\* mutant: the text is tested without trim()
SendMessageThrows_Untrimmed(params) ==
    \/ ~params.has
    \/ Join(TextParts(params.parts)) = ""

\* handleSendMessage throws before it creates a task: params.message of a
\* missing params, or no text in the message
SendMessageThrows(params) ==
    \/ ~params.has
    \/ Trim(Join(TextParts(params.parts))) = ""

----------------------------------------------------------------------------
(* a2a/server.ts: handleA2ARequest and handleSendMessage.  A request that  *)
(* creates no task is answered in one step; an accepted SendMessage is     *)
(* suspended at each fetch of the McpClient and of callLLM.                *)

\* ToolCall.id: the identifier of the k-th tool call the backend asks for in
\* one loop
ToolCallId(k) == "call-" \o ToString(k)

\* a ChatMessage without tool_calls and without tool_call_id
Turn(role, content, n) ==
    [role |-> role, content |-> content, calls |-> n, ids |-> <<>>,
     toolCallId |-> Absent]

\* history.push(assistantMsg): the message of the backend with its n
\* tool_calls, asked for after `asked` earlier ones
AssistantTurn(content, asked, n) ==
    [Turn("assistant", content, n) EXCEPT
        !.ids = [i \in 1..n |-> ToolCallId(asked + i)]]

\* history.push({ role: "tool", tool_call_id: tc.id, content: result })
ToolTurn(k, content) == [Turn("tool", content, 0) EXCEPT !.toolCallId = ToolCallId(k)]

\* mutant: every tool message carries the identifier of the last tool call
\* of its round
ToolCallIndex_Last(requested, left) == requested

\* for (const tc of assistantMsg.tool_calls): the tool call the loop is at
\* when `left` of the `requested` calls asked for so far are still to go
ToolCallIndex(requested, left) == requested - left + 1

\* String(err) of an Error: its name and its message
StringOfError(name, message) == name \o ": " \o message

\* result = JSON.stringify({ error: String(err) })
ErrorResult(str) == "{error:" \o str \o "}"

\* JSON.parse(tc.function.arguments) threw: the tool message of that call
ParseErrorTurn(k) ==
    ToolTurn(k, ErrorResult(StringOfError("SyntaxError", "Unexpected token")))

\* the tool messages of `skip` calls in a row, from call `first` on, whose
\* arguments do not parse
ParseErrorTurns(first, skip) == [i \in 1..skip |-> ParseErrorTurn(first + i - 1)]

\* how an awaited tool call was run: the invocation, what fetch and the data
\* source did for the gateway, what the data source did for the direct
\* executor (NoOutcome when it did not run), and where the result came from
ToolRun(tc, net, src, direct, via) ==
    [name |-> tc.name, arguments |-> tc.arguments, net |-> net, src |-> src,
     direct |-> direct, via |-> via]

NoToolRun ==
    ToolRun([name |-> Absent, arguments |-> Absent], "none", NoOutcome,
            NoOutcome, "none")

\* what a step of an orchestration loop did: the turns it pushed, the tool
\* call that settled in it, the backend calls, rounds, tool calls asked for
\* in these rounds and tool messages of the loop so far (`c` holds them),
\* and when the loop ended what ended it (`msg`): the content of the last
\* backend message and the number of its tool calls, which are not run, or
\* the message of the Error
\* the envelopes handleChat has sent for its utterance; the other loops send
\* none
SentOf(c) == IF "sent" \in DOMAIN c THEN c.sent ELSE <<>>

LoopEvent(path, id, kind, turns, c, msg, tool) ==
    [path |-> path, id |-> id, kind |-> kind, turns |-> turns, sent |-> SentOf(c),
     received |-> [binary |-> FALSE, text |-> Absent],
     llmCalls |-> c.llmCalls, rounds |-> c.rounds, requested |-> c.requested,
     toolTurns |-> c.toolTurns, said |-> msg.content, pending |-> msg.toolCalls,
     tool |-> tool]

NoMessage == [content |-> Absent, toolCalls |-> 0]

\* the Error that ended a loop
Fault(err) == [content |-> err, toolCalls |-> 0]

NoLoopEvent ==
    LoopEvent("none", Absent, "none", <<>>,
              [llmCalls |-> 0, rounds |-> 0, requested |-> 0, toolTurns |-> 0],
              NoMessage, NoToolRun)

\* the locals of a suspended handleSendMessage that its continuation reads:
\* where it is suspended, the id of its JSON-RPC request, contextId, the
\* iterations left, the number of tool calls of assistantMsg not yet run (the
\* first of them is in flight), and the McpClient.  The content of an
\* assistantMsg with tool calls is not among them: the next callLLM
\* overwrites it.  What a tool call names is drawn when it settles.
\* `uuids` is the number of randomUUID draws before those of the task.
\* llmCalls, rounds, requested and toolTurns count the callLLM calls made,
\* the loop bodies entered, the tool_calls of the messages they were entered
\* with and the tool messages pushed: no guard reads them.
NewCall(rpcId, contextId, n) ==
    [pc |-> "initialize", rpcId |-> rpcId, contextId |-> contextId, uuids |-> n,
     iterations |-> iterations, todo |-> 0, client |-> NewMcpClient,
     llmCalls |-> 0, rounds |-> 0, requested |-> 0, toolTurns |-> 0]

\* the request of a suspended SendMessage, as far as its continuation reads it
SendMessageRequest(call) ==
    [verb |-> "POST", auth |-> [scheme |-> "passed", token |-> ""],
     body |-> A2ABody(call.rpcId, "SendMessage", NoA2AParams)]

InitA2A ==
    /\ taskStore = EmptyMap
    /\ calls = [k \in {} |-> NewCall(Absent, Absent, 0)]
    /\ a2aResp = NoA2AResponse
    /\ a2aSent = EmptyMap
    /\ loopEvent = NoLoopEvent

\* the try block ends: completedTask is stored and returned, with
\* responseText = assistantMsg.content ?? ""
SendMessageCompletes(t, content) ==
    LET call == calls[t]
        task == completedTask(t, call.contextId,
                              IF content = Absent THEN "" ELSE content,
                              TaskUuid(call.uuids, 4))
    IN  /\ calls' = MapDelete(calls, t)
        /\ taskStore' = MapSet(taskStore, t, task)
        /\ a2aResp' = A2AResult(SendMessageRequest(call), task)
        /\ a2aSent' = MapSet(a2aSent, t, task)
        /\ UNCHANGED uuidCount

\* mutant: the catch block stores failedTask and throws the error on, to the
\* catch of the dispatch
SendMessageFails_Rethrows(t, err) ==
    LET call == calls[t]
        task == failedTask(t, call.contextId, err, TaskUuid(call.uuids, 4))
    IN  /\ calls' = MapDelete(calls, t)
        /\ taskStore' = MapSet(taskStore, t, task)
        /\ a2aResp' = A2ADispatchError(SendMessageRequest(call), err)
        /\ a2aSent' = a2aSent
        /\ UNCHANGED uuidCount

\* the catch block: failedTask is stored and returned
SendMessageFails(t, err) ==
    LET call == calls[t]
        task == failedTask(t, call.contextId, err, TaskUuid(call.uuids, 4))
    IN  /\ calls' = MapDelete(calls, t)
        /\ taskStore' = MapSet(taskStore, t, task)
        /\ a2aResp' = A2AResult(SendMessageRequest(call), task)
        /\ a2aSent' = MapSet(a2aSent, t, task)
        /\ UNCHANGED uuidCount

\* the handler is suspended again, with locals `call`
SendMessageAwaits(t, call) ==
    /\ a2aResp' = NoA2AResponse
    /\ calls' = [calls EXCEPT ![t] = call]
    /\ UNCHANGED <<taskStore, a2aSent, uuidCount>>

\* a request that is answered without creating a task and without reading
\* the task store
HandleA2ARequest(req) ==
    /\ LET b == req.body
       IN  CASE req.verb = "OPTIONS" ->
                  a2aResp' = A2AResponse(req, 204, "none", Absent, 0, "", NoTask)
             [] req.verb /= "POST" ->
                  a2aResp' = A2AResponse(req, 405, "text", Absent, 0,
                                         "Method Not Allowed", NoTask)
             [] checkA2AAuthRejects(req, a2aKey) ->
                  a2aResp' = checkA2AAuth(req, a2aKey)
             [] b.kind = "unparsable" ->
                  a2aResp' = A2AResponse(req, 400, "error", "null", -32700,
                                         "Parse error", NoTask)
             [] b.kind = "null" ->
                  \* rpcReq.jsonrpc of null throws outside the try block
                  a2aResp' = A2AResponse(req, -1, "thrown", Absent, 0,
                                         "TypeError", NoTask)
             [] b.jsonrpc /= "2.0" \/ ~Truthy(b.method) ->
                  a2aResp' = A2AResponse(req, 400, "error",
                                         IF b.id = Absent THEN "null" ELSE b.id,
                                         -32600, "Invalid JSON-RPC request", NoTask)
             [] b.method = "SendMessage" ->
                  /\ SendMessageThrows(b.params)
                  /\ a2aResp' = A2ADispatchError(req,
                        IF b.params.has
                        THEN "Message must contain at least one text part"
                        ELSE "TypeError")
             [] b.method = "GetTask" -> FALSE
             [] OTHER ->
                  a2aResp' = A2AResponse(req, 200, "error", b.id, -32601,
                                         "Method not found: " \o b.method, NoTask)
    /\ loopEvent' = NoLoopEvent
    /\ UNCHANGED <<taskStore, calls, a2aSent, uuidCount, sessions>>

\* the request reaches the dispatch of a valid JSON-RPC request
Dispatched(req, method) ==
    /\ req.verb = "POST"
    /\ ~checkA2AAuthRejects(req, a2aKey)
    /\ req.body.kind = "object"
    /\ req.body.jsonrpc = "2.0"
    /\ req.body.method = method

\* GetTask: result = handleGetTask(params), or the Error caught
HandleGetTask(req) ==
    /\ Dispatched(req, "GetTask")
    /\ LET r == handleGetTask(req.body.params, taskStore)
       IN  a2aResp' = IF r.threw THEN A2ADispatchError(req, r.err)
                      ELSE A2AResult(req, r.task)
    /\ loopEvent' = NoLoopEvent
    /\ UNCHANGED <<taskStore, calls, a2aSent, uuidCount, sessions>>

\* SendMessage with text: the task is created in state working and the
\* handler runs up to the fetch of McpClient.rpc("initialize")
HandleSendMessage(req, max) ==
    /\ Dispatched(req, "SendMessage")
    /\ ~SendMessageThrows(req.body.params)
    /\ Cardinality(DOMAIN taskStore) < max
    /\ LET taskId    == NewTaskId(uuidCount)
           given     == req.body.params.contextId
           contextId == IF given = Absent THEN TaskUuid(uuidCount, 2) ELSE given
       IN  /\ uuidCount' = uuidCount + TaskUuids
           /\ taskStore' = MapSet(taskStore, taskId, workingTask(taskId, contextId))
           /\ calls' = MapSet(calls, taskId,
                              NewCall(req.body.id, contextId, uuidCount))
    /\ a2aResp' = A2AAccepted(req)
    /\ loopEvent' = NoLoopEvent
    /\ UNCHANGED <<a2aSent, sessions>>

\* one McpClient.rpc of the handler: the gateway serves the POST (or is not
\* reached) and rpc returns or throws
ClientRpc(call, envelope, net, src) ==
    LET g == GatewayServes(envelope, call.client.sessionId, mcpKey, sessions,
                           call.uuids + 2, src)
    IN  IF net = "served"
        THEN [r |-> McpClientRpc(call.client, net, g.res), sessions |-> g.sessions]
        ELSE [r |-> McpClientRpc(call.client, net, NoResponse),
              sessions |-> sessions]

NoSource == [ok |-> FALSE, val |-> Absent]

\* a step of mcpClient.listTools(): when it throws, the catch of
\* handleSendMessage ends the loop before its first backend call
CatalogEvent(t, threw, err) ==
    IF threw
    THEN LoopEvent("task", t, "fault", <<>>, calls[t], Fault(err), NoToolRun)
    ELSE NoLoopEvent

\* listTools -> initialize: rpc("initialize", ..., 1) settles
McpInitializeSettles(t, net) ==
    /\ t \in DOMAIN calls
    /\ calls[t].pc = "initialize"
    /\ LET x == ClientRpc(calls[t], ClientEnvelope("initialize", NoParams, "1"),
                          net, NoSource)
       IN  /\ sessions' = x.sessions
           /\ loopEvent' = CatalogEvent(t, x.r.threw, x.r.err)
           /\ IF x.r.threw
              THEN SendMessageFails(t, x.r.err)
              ELSE SendMessageAwaits(t, [calls[t] EXCEPT !.pc = "initialized",
                                                         !.client = x.r.client])

\* initialize: rpc("notifications/initialized") settles; this.initialized = true
McpInitializedSettles(t, net) ==
    /\ t \in DOMAIN calls
    /\ calls[t].pc = "initialized"
    /\ LET x == ClientRpc(calls[t],
                          ClientEnvelope("notifications/initialized", NoParams, Absent),
                          net, NoSource)
       IN  /\ sessions' = x.sessions
           /\ loopEvent' = CatalogEvent(t, x.r.threw, x.r.err)
           /\ IF x.r.threw
              THEN SendMessageFails(t, x.r.err)
              ELSE SendMessageAwaits(t,
                      [calls[t] EXCEPT !.pc = "tools/list",
                                       !.client = [x.r.client EXCEPT !.initialized = TRUE]])

\* listTools: rpc("tools/list", undefined, 2) settles; result.tools is read
\* and callLLM is called
McpToolsListSettles(t, net) ==
    /\ t \in DOMAIN calls
    /\ calls[t].pc = "tools/list"
    /\ LET x == ClientRpc(calls[t], ClientEnvelope("tools/list", NoParams, "2"),
                          net, NoSource)
       IN  /\ sessions' = x.sessions
           /\ loopEvent' = CatalogEvent(t, x.r.threw \/ x.r.result.kind /= "tools",
                                        IF x.r.threw THEN x.r.err ELSE "TypeError")
           /\ IF x.r.threw
              THEN SendMessageFails(t, x.r.err)
              ELSE IF x.r.result.kind /= "tools"
              THEN SendMessageFails(t, "TypeError")
              ELSE SendMessageAwaits(t, [calls[t] EXCEPT !.pc = "llm",
                                                         !.client = x.r.client])

\* mutant: the loop goes on as long as the backend asks for tools
LoopContinues_NoCeiling(toolCalls, left) == toolCalls > 0

\* while (assistantMsg.tool_calls && assistantMsg.tool_calls.length > 0
\*        && iterations-- > 0)
LoopContinues(toolCalls, left) == toolCalls > 0 /\ left > 0

\* the for loop over tool_calls, from `left` calls to go up to the next
\* `await mcpClient.callTool`: the first `skip` of them have arguments that
\* JSON.parse rejects and get their error result without suspending; with no
\* call left the round ends with callLLM
ForToolCalls(call, left, skip) ==
    [call EXCEPT !.pc = IF left - skip = 0 THEN "llm" ELSE "tool",
                 !.todo = left - skip]

\* callLLM settles, before the loop or at the end of a round
CallLLMSettles(t, out, skip) ==
    /\ t \in DOMAIN calls
    /\ calls[t].pc = "llm"
    /\ skip \in 0..out.toolCalls
    /\ LET msg  == callLLM(out)
           call == [calls[t] EXCEPT !.llmCalls = @ + 1]
           next == ForToolCalls([call EXCEPT !.iterations = @ - 1,
                                             !.rounds = @ + 1,
                                             !.requested = @ + msg.toolCalls,
                                             !.toolTurns = @ + skip],
                                msg.toolCalls, skip)
       IN  IF msg.threw
           THEN /\ skip = 0
                /\ SendMessageFails(t, msg.err)
                /\ loopEvent' = LoopEvent("task", t, "fault", <<>>, call,
                                          Fault(msg.err), NoToolRun)
           ELSE IF LoopContinues(msg.toolCalls, call.iterations)
           THEN /\ SendMessageAwaits(t, next)
                /\ loopEvent' =
                      LoopEvent("task", t, "round",
                                <<AssistantTurn(msg.content, call.requested,
                                                msg.toolCalls)>>
                                   \o ParseErrorTurns(
                                         ToolCallIndex(next.requested, msg.toolCalls),
                                         skip),
                                next, NoMessage, NoToolRun)
           ELSE /\ skip = 0
                /\ SendMessageCompletes(t, msg.content)
                /\ loopEvent' = LoopEvent("task", t, "answer", <<>>, call,
                                          msg, NoToolRun)
    /\ UNCHANGED sessions

\* result = await mcpClient.callTool(...) in the try of handleSendMessage:
\* the text returned, or the error caught
CallToolResult(r) ==
    LET c == McpClientCallTool(r)
    IN  IF c.threw THEN ErrorResult(StringOfError("Error", c.text)) ELSE c.text

\* mutant: an error of mcpClient.callTool is not caught in the for loop
ToolCallSettles_Rethrows(t, tc, net, src, skip) ==
    /\ t \in DOMAIN calls
    /\ calls[t].pc = "tool"
    /\ skip \in 0..(calls[t].todo - 1)
    /\ LET x == ClientRpc(calls[t],
                   ClientEnvelope("tools/call",
                       [has |-> TRUE, name |-> tc.name, arguments |-> tc.arguments],
                       "now"),
                   net, src)
           c == McpClientCallTool(x.r)
           next == ForToolCalls([calls[t] EXCEPT !.client = x.r.client,
                                                 !.toolTurns = @ + 1 + skip],
                                calls[t].todo - 1, skip)
           run == ToolRun(tc, net, IF net = "served" THEN src ELSE NoOutcome,
                          NoOutcome, IF c.threw THEN "caught" ELSE "gateway")
       IN  /\ sessions' = x.sessions
           /\ IF c.threw
              THEN /\ skip = 0
                   /\ SendMessageFails(t, c.text)
                   /\ loopEvent' = LoopEvent("task", t, "fault", <<>>, calls[t],
                                             Fault(c.text), run)
              ELSE /\ SendMessageAwaits(t, next)
                   /\ loopEvent' = LoopEvent("task", t, "tool",
                                             <<ToolTurn(ToolCallIndex(calls[t].requested,
                                                                      calls[t].todo),
                                                        c.text)>>
                                                \o ParseErrorTurns(
                                                      ToolCallIndex(calls[t].requested,
                                                                    calls[t].todo - 1),
                                                      skip),
                                             next, NoMessage, run)

\* mcpClient.callTool of the tool call in flight, `tc`, settles: its text, or
\* the error it threw, becomes the tool message; the loop goes on
ToolCallSettles(t, tc, net, src, skip) ==
    /\ t \in DOMAIN calls
    /\ calls[t].pc = "tool"
    /\ skip \in 0..(calls[t].todo - 1)
    /\ LET x == ClientRpc(calls[t],
                   ClientEnvelope("tools/call",
                       [has |-> TRUE, name |-> tc.name, arguments |-> tc.arguments],
                       "now"),
                   net, src)
           next == ForToolCalls([calls[t] EXCEPT !.client = x.r.client,
                                                 !.toolTurns = @ + 1 + skip],
                                calls[t].todo - 1, skip)
       IN  /\ sessions' = x.sessions
           /\ SendMessageAwaits(t, next)
           /\ loopEvent' =
                 LoopEvent("task", t, "tool",
                           <<ToolTurn(ToolCallIndex(calls[t].requested, calls[t].todo),
                                      CallToolResult(x.r))>>
                              \o ParseErrorTurns(
                                    ToolCallIndex(calls[t].requested, calls[t].todo - 1),
                                    skip),
                           next, NoMessage,
                           ToolRun(tc, net, IF net = "served" THEN src ELSE NoOutcome,
                                   NoOutcome,
                                   IF McpClientCallTool(x.r).threw THEN "caught"
                                   ELSE "gateway"))

\* the task identifiers a client can present: those of the store
KnownTasks == DOMAIN taskStore

\* the requests with the token: GetTask for each task and for an unknown
\* identifier, SendMessage with text and a contextId of `contexts` (Absent:
\* none), SendMessage without text
TaskRequests(known, contexts) ==
    { [verb |-> "POST", auth |-> [scheme |-> "Bearer", token |-> "a2a-secret"],
       body |-> b] :
        b \in { A2ABody("r1", "GetTask", [NoA2AParams EXCEPT !.has = TRUE, !.id = t]) :
                  t \in known \cup {"unknown"} }
              \cup
              { A2ABody("r1", "SendMessage",
                        [NoA2AParams EXCEPT !.has = TRUE,
                            !.parts = << [kind |-> "text", text |-> "hello"] >>,
                            !.contextId = c]) :
                  c \in contexts }
              \cup
              { A2ABody("r1", "SendMessage",
                        [NoA2AParams EXCEPT !.has = TRUE,
                            !.parts = << [kind |-> "text", text |-> " "] >>]) } }

\* the tool rounds the handler of task t has started
RoundsUsed(t) == iterations - calls[t].iterations

\* the steps of the suspended handlers that are the same in both specifications
HandlerSettles ==
    \/ \E t \in DOMAIN calls, net \in NetOutcomes : McpInitializeSettles(t, net)
    \/ \E t \in DOMAIN calls, net \in NetOutcomes : McpInitializedSettles(t, net)
    \/ \E t \in DOMAIN calls, net \in NetOutcomes : McpToolsListSettles(t, net)
    \/ \E t \in DOMAIN calls, tc \in ToolCalls, net \in NetOutcomes,
          src \in DataSourceOutcomes, skip \in 0..MaxToolCalls :
             ToolCallSettles(t, tc, net, src, skip)

\* SpecA2A: SendMessage handlers run concurrently with each other and with
\* GetTask; the backend stops asking for tools after MaxRounds rounds, and
\* the messages name no contextId
NextA2A ==
    /\ \/ \E req \in TaskRequests(KnownTasks, {Absent}) : HandleA2ARequest(req)
       \/ \E req \in TaskRequests(KnownTasks, {Absent}) : HandleGetTask(req)
       \/ \E req \in TaskRequests(KnownTasks, {Absent}) :
             HandleSendMessage(req, MaxTasks)
       \/ HandlerSettles
       \/ \E t \in DOMAIN calls, out \in LLMOutcomes, skip \in 0..MaxToolCalls :
             /\ out.toolCalls > 0 => RoundsUsed(t) < MaxRounds
             /\ CallLLMSettles(t, out, skip)
    /\ UNCHANGED <<mcpKey, a2aKey, gatewayVars, agentVars, toolVars>>

\* SpecTask: one SendMessage handler at a time, GetTask at any time; the
\* backend asks for tools whenever it likes
NextTask ==
    /\ \/ \E req \in TaskRequests(KnownTasks, {Absent, "ctx-1"}) :
             HandleA2ARequest(req)
       \/ \E req \in TaskRequests(KnownTasks, {Absent, "ctx-1"}) :
             HandleGetTask(req)
       \/ /\ DOMAIN calls = {}
          /\ \E req \in TaskRequests(KnownTasks, {Absent, "ctx-1"}) :
                HandleSendMessage(req, MaxLoopTasks)
       \/ HandlerSettles
       \/ \E t \in DOMAIN calls, out \in LLMOutcomes, skip \in 0..MaxToolCalls :
             CallLLMSettles(t, out, skip)
    /\ UNCHANGED <<mcpKey, a2aKey, gatewayVars, agentVars, toolVars>>

\* the identifiers the tasks of one run get, in the order of their creation
TaskIds(max) == { NewTaskId((j - 1) * TaskUuids) : j \in 1..max }

\* a step of the handler of task t
HandlerStep(t) ==
    /\ \/ \E net \in NetOutcomes : McpInitializeSettles(t, net)
       \/ \E net \in NetOutcomes : McpInitializedSettles(t, net)
       \/ \E net \in NetOutcomes : McpToolsListSettles(t, net)
       \/ \E tc \in ToolCalls, net \in NetOutcomes,
             src \in DataSourceOutcomes, skip \in 0..MaxToolCalls :
                ToolCallSettles(t, tc, net, src, skip)
       \/ \E out \in LLMOutcomes, skip \in 0..MaxToolCalls :
                CallLLMSettles(t, out, skip)
    /\ UNCHANGED <<mcpKey, a2aKey, gatewayVars, agentVars, toolVars>>

\* every fetch of a suspended handler eventually settles
TaskFairness == \A t \in TaskIds(MaxLoopTasks) : WF_vars(HandlerStep(t))

----------------------------------------------------------------------------
(* agent/nutri-agent.ts: the NutriAgent Durable Object                     *)

\* let maxIterations = 8 (handleChat); onRequest has its own `iterations`
maxIterations == 8

AgentPaths == {"ws", "http"}

\* mutant: the loop of onRequest has one round less
LoopCeiling_HttpOneLess(path) ==
    IF path = "ws" THEN maxIterations ELSE iterations - 1

LoopCeiling(path) == IF path = "ws" THEN maxIterations ELSE iterations

\* an envelope of the interactive channel, by its type: status, tool_call,
\* response, error
Envelope(type) == [type |-> type, step |-> Absent, status |-> Absent]

\* sendPipeline(connection, step, status, detail)
sendPipeline(step, status) == [type |-> "pipeline", step |-> step, status |-> status]

\* what handleChat sends before its first await: agent active, the legacy
\* status and llm active
ArrivalSends ==
    <<sendPipeline("agent", "active"), Envelope("status"),
      sendPipeline("llm", "active")>>

\* what the for loop sends up to executeTool or JSON.parse
ToolStartSends == <<sendPipeline("tools", "active"), Envelope("tool_call")>>

\* what the for loop sends for `skip` tool calls in a row whose arguments do
\* not parse
UnparsableSends(skip) ==
    [i \in 1..(3 * skip) |->
        CASE i % 3 = 1 -> sendPipeline("tools", "active")
          [] i % 3 = 2 -> Envelope("tool_call")
          [] OTHER     -> sendPipeline("tools", "complete")]

\* what the while loop sends after the for loop, before callLLM
RoundEndSends == <<sendPipeline("llm", "active"), Envelope("status")>>

\* mutant: the response is sent before the done event
OnSuccessSends_DoneLast == <<Envelope("response"), sendPipeline("done", "complete")>>

\* the sends that end the try block
OnSuccessSends == <<sendPipeline("done", "complete"), Envelope("response")>>

\* mutant: the catch block sends the error envelope only
OnFailureSends_NoDone == <<Envelope("error")>>

\* the sends of the catch block
OnFailureSends == <<sendPipeline("done", "complete"), Envelope("error")>>

\* only handleChat has a connection to send to
Sends(path, envelopes) == IF path = "ws" THEN envelopes ELSE <<>>

\* history.push({ role: "user", content: userMessage }), utterance number u
UserTurn(u) == Turn("user", "utterance-" \o ToString(u), 0)

NoToolCall == [name |-> Absent, arguments |-> Absent]

\* callLLM up to its first await: getLLMTools returns the cached catalog and
\* the backend is fetched, or listTools starts with initialize() or, with an
\* initialized client, with tools/list
CallLLMStart(a) ==
    IF a.llmTools /= "null" THEN "llm"
    ELSE IF a.mcpClient.initialized THEN "tools/list" ELSE "initialize"

\* executeTool up to its first await: callTool starts with initialize()
\* unless the client is initialized
ExecuteToolStart(a) ==
    IF a.mcpClient.initialized THEN "tool/call" ELSE "tool/initialize"

\* the locals of a suspended handleChat or onRequest: where it is suspended,
\* history, the iterations left, the tool calls of the assistant message not
\* yet run, the one in flight (`tc`) and, once its gateway call has failed,
\* what fetch and the data source had done for it (`gw`); llmCalls, rounds,
\* requested and toolTurns as in NewCall
NewLoop(path, u, a) ==
    [path |-> path, pc |-> CallLLMStart(a),
     history |-> a.messages \o <<UserTurn(u)>>,
     maxIterations |-> LoopCeiling(path), todo |-> 0, tc |-> NoToolCall,
     gw |-> [net |-> "none", src |-> NoOutcome],
     llmCalls |-> 0, rounds |-> 0, requested |-> 0, toolTurns |-> 0,
     sent |-> Sends(path, ArrivalSends)]

\* connection.send of a response or error envelope, or the Response of
\* onRequest ("thrown": onRequest rejected)
AgentOut(type, content, u) == [type |-> type, content |-> content, to |-> u]

\* nothing was sent by the latest step
NoAgentOut == AgentOut("none", Absent, 0)

\* one McpClient.rpc of the agent's client: the POST is built and served in
\* the step in which its fetch settles
AgentRpc(envelope, net, src) ==
    LET g == GatewayServes(envelope, agent.mcpClient.sessionId, mcpKey, sessions,
                           uuidCount, src)
    IN  IF net = "served"
        THEN [r |-> McpClientRpc(agent.mcpClient, net, g.res),
              sessions |-> g.sessions, uuids |-> g.uuids]
        ELSE [r |-> McpClientRpc(agent.mcpClient, net, NoResponse),
              sessions |-> sessions, uuids |-> uuidCount]

\* the handler is suspended again, with locals `loop`
AgentAwaits(u, loop) ==
    /\ loops' = [loops EXCEPT ![u] = loop]
    /\ agentOut' = NoAgentOut

\* the tool call the for loop reaches after `skip` of `left` calls: none when
\* no call is left
NextToolCall(left, skip, tc) ==
    IF left - skip = 0 THEN tc = NoToolCall ELSE tc \in ToolCalls

\* mutant: a tool call whose arguments do not parse gets no tool message
AgentForToolCalls_DropsUnparsable(loop, left, skip, tc, a) ==
    IF left - skip = 0
    THEN [loop EXCEPT !.pc = CallLLMStart(a), !.todo = 0, !.tc = NoToolCall]
    ELSE [loop EXCEPT !.pc = ExecuteToolStart(a), !.todo = left - skip, !.tc = tc]

\* the for loop over tool_calls, from `left` calls to go: the first `skip`
\* have unparsable arguments; the next one, `tc`, is handed to executeTool;
\* with no call left the round ends with callLLM.  `a` is the agent then.
AgentForToolCalls(loop, left, skip, tc, a) ==
    IF left - skip = 0
    THEN [loop EXCEPT !.pc = CallLLMStart(a), !.todo = 0, !.tc = NoToolCall,
                      !.history = @ \o ParseErrorTurns(
                                          ToolCallIndex(loop.requested, left), skip),
                      !.toolTurns = @ + skip,
                      !.sent = @ \o Sends(loop.path,
                                          UnparsableSends(skip) \o RoundEndSends)]
    ELSE [loop EXCEPT !.pc = ExecuteToolStart(a), !.todo = left - skip, !.tc = tc,
                      !.history = @ \o ParseErrorTurns(
                                          ToolCallIndex(loop.requested, left), skip),
                      !.toolTurns = @ + skip,
                      !.sent = @ \o Sends(loop.path,
                                          UnparsableSends(skip) \o ToolStartSends)]

\* a WSMessage: an ArrayBuffer, or a string
WSMessage(binary, text) == [binary |-> binary, text |-> text]

\* the messages a client sends: bytes; words, a barcode, the word null and
\* nothing, as raw text; a chat envelope with and without content; another
\* envelope
WSMessages ==
    {WSMessage(TRUE, "")}
       \cup { WSMessage(FALSE, t) :
                t \in {"how much sugar", "3017620422003", "null", "",
                       "{type:chat,content:hi}", "{type:chat,content:}",
                       "{type:ping}"} }

\* a value JSON.parse returns: of an object its type and content
JSONValue(kind, type, content) == [kind |-> kind, type |-> type, content |-> content]

\* JSON.parse(message): the value, or the SyntaxError thrown
JSONparse(text) ==
    CASE text = "3017620422003" ->
            [threw |-> FALSE, value |-> JSONValue("number", Absent, Absent)]
      [] text = "null" ->
            [threw |-> FALSE, value |-> JSONValue("null", Absent, Absent)]
      [] text = "{type:chat,content:hi}" ->
            [threw |-> FALSE, value |-> JSONValue("object", "chat", "hi")]
      [] text = "{type:chat,content:}" ->
            [threw |-> FALSE, value |-> JSONValue("object", "chat", "")]
      [] text = "{type:ping}" ->
            [threw |-> FALSE, value |-> JSONValue("object", "ping", Absent)]
      [] OTHER -> [threw |-> TRUE, value |-> JSONValue("none", Absent, Absent)]

\* try { parsed = JSON.parse(message) } catch { parsed = { type: "chat",
\* content: message } }
OnMessageParsed(message) ==
    IF JSONparse(message.text).threw
    THEN JSONValue("object", "chat", message.text)
    ELSE JSONparse(message.text).value

\* parsed.type of null throws a TypeError that onMessage does not catch
OnMessageThrows(message) ==
    ~message.binary /\ OnMessageParsed(message).kind = "null"

\* onMessage: a message that is not a string, or a parsed message that is
\* not a chat with content, is dropped
OnMessageIgnores(message) ==
    \/ message.binary
    \/ /\ ~OnMessageThrows(message)
       /\ ~(OnMessageParsed(message).type = "chat"
              /\ Truthy(OnMessageParsed(message).content))

\* what onMessage did with a message: `said` is the userMessage handed to
\* handleChat
MessageEvent(u, message) ==
    [NoLoopEvent EXCEPT
        !.path = "ws", !.id = u, !.received = message,
        !.kind = IF OnMessageThrows(message) THEN "thrown"
                 ELSE IF OnMessageIgnores(message) THEN "dropped" ELSE "chat",
        !.said = IF OnMessageThrows(message) \/ OnMessageIgnores(message)
                 THEN Absent ELSE OnMessageParsed(message).content]

\* onMessage -> handleChat up to the first await of callLLM
OnMessage(u, message) ==
    /\ u \notin DOMAIN loops
    /\ IF OnMessageThrows(message) \/ OnMessageIgnores(message)
       THEN UNCHANGED loops
       ELSE loops' = MapSet(loops, u, NewLoop("ws", u, agent))
    /\ agentOut' = NoAgentOut
    /\ loopEvent' = MessageEvent(u, message)
    /\ UNCHANGED <<agent, sessions, uuidCount>>

\* onRequest: POST /api/chat starts the loop; any other request is answered
\* "NutriAgent is running"
OnRequest(u, chat) ==
    /\ u \notin DOMAIN loops
    /\ IF chat
       THEN /\ loops' = MapSet(loops, u, NewLoop("http", u, agent))
            /\ agentOut' = NoAgentOut
       ELSE /\ agentOut' = AgentOut("running", "NutriAgent is running", u)
            /\ UNCHANGED loops
    /\ loopEvent' = NoLoopEvent
    /\ UNCHANGED <<agent, sessions, uuidCount>>

\* getLLMTools: a step of mcp.listTools() settles.  A throw is caught:
\* this.llmTools = TOOL_DEFINITIONS and the backend is fetched.
AgentCatalogSettles(u, net) ==
    /\ u \in DOMAIN loops
    /\ loops[u].pc \in {"initialize", "initialized", "tools/list"}
    /\ LET pc == loops[u].pc
           x  == AgentRpc(ClientEnvelope(IF pc = "initialized"
                                         THEN "notifications/initialized" ELSE pc,
                                         NoParams,
                                         CASE pc = "initialize" -> "1"
                                           [] pc = "initialized" -> Absent
                                           [] OTHER -> "2"),
                          net, NoSource)
           failed == x.r.threw \/ (pc = "tools/list" /\ x.r.result.kind /= "tools")
       IN  /\ sessions' = x.sessions
           /\ uuidCount' = x.uuids
           /\ agent' = [agent EXCEPT
                 !.mcpClient = IF pc = "initialized" /\ ~failed
                               THEN [x.r.client EXCEPT !.initialized = TRUE]
                               ELSE x.r.client,
                 !.llmTools = IF failed THEN "static"
                              ELSE IF pc = "tools/list" THEN "gateway" ELSE @]
           /\ AgentAwaits(u, [loops[u] EXCEPT !.pc =
                 IF failed THEN "llm"
                 ELSE CASE pc = "initialize" -> "initialized"
                        [] pc = "initialized" -> "tools/list"
                        [] OTHER -> "llm"])
    /\ loopEvent' = NoLoopEvent

\* mutant: the ceiling is an error when the backend still asks for tools
AgentAnswers_CeilingIsError(u, loop, msg) ==
    /\ loops' = MapDelete(loops, u)
    /\ agentOut' = IF loop.path = "ws"
                   THEN AgentOut(IF msg.toolCalls > 0 THEN "error" ELSE "response",
                                 IF msg.content = Absent THEN "" ELSE msg.content, u)
                   ELSE AgentOut("json", msg.content, u)
    /\ loopEvent' = LoopEvent(loop.path, u, "answer", <<>>, loop, msg, NoToolRun)
    /\ UNCHANGED agent

\* the loop ends with a backend message: the final turn is pushed, the state
\* is persisted and the answer is sent (handleChat) or returned (onRequest)
AgentAnswers(u, loop, msg) ==
    LET final == Turn("assistant", IF msg.content = Absent THEN "" ELSE msg.content, 0)
    IN  /\ agent' = [agent EXCEPT !.messages = loop.history \o <<final>>]
        /\ loops' = MapDelete(loops, u)
        /\ agentOut' = IF loop.path = "ws"
                       THEN AgentOut("response", final.content, u)
                       ELSE AgentOut("json", msg.content, u)
        /\ loopEvent' = LoopEvent(loop.path, u, "answer", <<final>>,
                                  [loop EXCEPT !.sent = @ \o Sends(loop.path,
                                                                   OnSuccessSends)],
                                  msg, NoToolRun)

\* mutant: a failed backend call is made again
AgentFaults_Retries(u, loop, err) ==
    /\ AgentAwaits(u, loop)
    /\ loopEvent' = NoLoopEvent
    /\ UNCHANGED agent

\* callLLM threw: handleChat catches and sends an error envelope; onRequest
\* has no catch and rejects
AgentFaults(u, loop, err) ==
    /\ loops' = MapDelete(loops, u)
    /\ agentOut' = IF loop.path = "ws"
                   THEN AgentOut("error", "Sorry, something went wrong: " \o err, u)
                   ELSE AgentOut("thrown", err, u)
    /\ loopEvent' = LoopEvent(loop.path, u, "fault", <<>>,
                              [loop EXCEPT !.sent = @ \o Sends(loop.path,
                                                               OnFailureSends)],
                              Fault(err), NoToolRun)
    /\ UNCHANGED agent

\* the fetch of callLLM settles, before the loop or at the end of a round
AgentCallLLMSettles(u, out, skip, tc) ==
    /\ u \in DOMAIN loops
    /\ loops[u].pc = "llm"
    /\ skip \in 0..out.toolCalls
    /\ LET msg  == callLLM(out)
           loop == [loops[u] EXCEPT !.llmCalls = @ + 1]
           next == AgentForToolCalls(
                      [loop EXCEPT !.maxIterations = @ - 1, !.rounds = @ + 1,
                                   !.requested = @ + msg.toolCalls,
                                   !.history = @ \o <<AssistantTurn(msg.content,
                                                                    loop.requested,
                                                                    msg.toolCalls)>>,
                                   !.sent = @ \o Sends(loop.path,
                                               <<sendPipeline("mcp", "active")>>)],
                      msg.toolCalls, skip, tc, agent)
       IN  IF msg.threw
           THEN /\ skip = 0
                /\ tc = NoToolCall
                /\ AgentFaults(u, loop, msg.err)
           ELSE IF LoopContinues(msg.toolCalls, loop.maxIterations)
           THEN /\ NextToolCall(msg.toolCalls, skip, tc)
                /\ AgentAwaits(u, next)
                /\ loopEvent' =
                      LoopEvent(loop.path, u, "round",
                                <<AssistantTurn(msg.content, loop.requested,
                                                msg.toolCalls)>>
                                   \o ParseErrorTurns(
                                         ToolCallIndex(next.requested, msg.toolCalls),
                                         skip),
                                next, NoMessage, NoToolRun)
                /\ UNCHANGED agent
           ELSE /\ skip = 0
                /\ tc = NoToolCall
                /\ AgentAnswers(u, loop, msg)
    /\ UNCHANGED <<sessions, uuidCount>>

\* executeTool -> callTool -> initialize(): one of its two rpc settles.  A
\* throw is caught by executeTool, which turns to dispatchTool.
AgentToolInitSettles(u, net) ==
    /\ u \in DOMAIN loops
    /\ loops[u].pc \in {"tool/initialize", "tool/initialized"}
    /\ LET first == loops[u].pc = "tool/initialize"
           x == AgentRpc(IF first THEN ClientEnvelope("initialize", NoParams, "1")
                         ELSE ClientEnvelope("notifications/initialized", NoParams,
                                             Absent),
                         net, NoSource)
       IN  /\ sessions' = x.sessions
           /\ uuidCount' = x.uuids
           /\ agent' = [agent EXCEPT
                 !.mcpClient = IF ~first /\ ~x.r.threw
                               THEN [x.r.client EXCEPT !.initialized = TRUE]
                               ELSE x.r.client]
           /\ AgentAwaits(u, [loops[u] EXCEPT
                 !.pc = IF x.r.threw THEN "direct"
                        ELSE IF first THEN "tool/initialized" ELSE "tool/call",
                 !.gw = IF x.r.threw THEN [net |-> net, src |-> NoOutcome] ELSE @])
    /\ loopEvent' = NoLoopEvent

\* the tool message of `tc` is pushed with `content` and the for loop goes on
AgentToolResult(u, content, run, skip, tc) ==
    LET at   == ToolCallIndex(loops[u].requested, loops[u].todo)
        loop == [loops[u] EXCEPT !.history = @ \o <<ToolTurn(at, content)>>,
                                 !.toolTurns = @ + 1,
                                 !.sent = @ \o Sends(loops[u].path,
                                             <<sendPipeline("tools", "complete")>>),
                                 !.gw = [net |-> "none", src |-> NoOutcome]]
        next == AgentForToolCalls(loop, loop.todo - 1, skip, tc, agent')
    IN  /\ skip \in 0..(loop.todo - 1)
        /\ NextToolCall(loop.todo - 1, skip, tc)
        /\ AgentAwaits(u, next)
        /\ loopEvent' = LoopEvent(loop.path, u, "tool",
                                  <<ToolTurn(at, content)>>
                                     \o ParseErrorTurns(
                                           ToolCallIndex(loop.requested, loop.todo - 1),
                                           skip),
                                  next, NoMessage, run)

\* executeTool: rpc("tools/call") of mcp.callTool settles.  The text is the
\* result; a throw of callTool is caught by executeTool, which turns to
\* dispatchTool.
AgentToolCallSettles(u, net, src, skip, tc) ==
    /\ u \in DOMAIN loops
    /\ loops[u].pc = "tool/call"
    /\ LET cur == loops[u].tc
           x == AgentRpc(ClientEnvelope("tools/call",
                            [has |-> TRUE, name |-> cur.name,
                             arguments |-> cur.arguments], "now"),
                         net, src)
           c == McpClientCallTool(x.r)
           ran == IF net = "served" THEN src ELSE NoOutcome
       IN  /\ sessions' = x.sessions
           /\ uuidCount' = x.uuids
           /\ agent' = [agent EXCEPT !.mcpClient = x.r.client]
           /\ IF c.threw
              THEN /\ skip = 0
                   /\ tc = NoToolCall
                   /\ AgentAwaits(u, [loops[u] EXCEPT !.pc = "direct",
                                         !.gw = [net |-> net, src |-> ran]])
                   /\ loopEvent' = NoLoopEvent
              ELSE AgentToolResult(u, c.text, ToolRun(cur, net, ran, NoOutcome, "gateway"),
                                   skip, tc)

\* executeTool's catch: dispatchTool(name, args) settles.  Its result is
\* stringified; its throw leaves executeTool and is caught by the loop.
AgentDirectSettles(u, src, skip, tc) ==
    /\ u \in DOMAIN loops
    /\ loops[u].pc = "direct"
    /\ UNCHANGED <<agent, sessions, uuidCount>>
    /\ LET cur == loops[u].tc
           out == dispatchTool(cur.name, cur.arguments, src)
       IN  AgentToolResult(u,
               IF out.ok THEN JSONstringify(out.val)
               ELSE ErrorResult(StringOfError("Error", out.val)),
               ToolRun(cur, loops[u].gw.net, loops[u].gw.src, out,
                       IF out.ok THEN "direct" ELSE "caught"),
               skip, tc)

RECURSIVE UserTurns(_)
\* the number of user turns of a history
UserTurns(history) ==
    IF history = <<>> THEN 0
    ELSE (IF Head(history).role = "user" THEN 1 ELSE 0) + UserTurns(Tail(history))

\* utterance u can arrive: it is neither in flight nor in the persisted
\* history, and the bound leaves room for it
CanStart(u, max) ==
    /\ u \notin DOMAIN loops
    /\ \A k \in 1..Len(agent.messages) : agent.messages[k] /= UserTurn(u)
    /\ UserTurns(agent.messages) + Cardinality(DOMAIN loops) < max

AllToolCalls == ToolCalls \cup {NoToolCall}

\* the backend in SpecAgent: it is not reached, it answers, or it asks for
\* tools and says nothing else
ChatOutcomes ==
    { o \in LLMOutcomes :
        /\ o.kind \in {"unreachable", "message"}
        /\ o.reasoning = Absent
        /\ o.content = (IF o.toolCalls = 0 /\ o.kind = "message" THEN "answer"
                        ELSE Absent) }

\* SpecAgent: utterances arrive on the interactive channel and on /api/chat
\* while loops of the same agent are suspended; the backend stops asking for
\* tools after MaxRounds rounds, and the arguments of its tool calls parse
NextAgent ==
    /\ \/ \E u \in 1..MaxUtterances, message \in WSMessages :
             CanStart(u, MaxUtterances) /\ OnMessage(u, message)
       \/ \E u \in 1..MaxUtterances, chat \in BOOLEAN :
             CanStart(u, MaxUtterances) /\ OnRequest(u, chat)
       \/ \E u \in DOMAIN loops, net \in NetOutcomes : AgentCatalogSettles(u, net)
       \/ \E u \in DOMAIN loops, net \in NetOutcomes : AgentToolInitSettles(u, net)
       \/ \E u \in DOMAIN loops, out \in ChatOutcomes, tc \in AllToolCalls :
             /\ out.toolCalls > 0 => loops[u].rounds < MaxRounds
             /\ AgentCallLLMSettles(u, out, 0, tc)
       \/ \E u \in DOMAIN loops, net \in NetOutcomes, src \in DataSourceOutcomes,
             tc \in AllToolCalls :
             AgentToolCallSettles(u, net, src, 0, tc)
       \/ \E u \in DOMAIN loops, src \in DataSourceOutcomes, tc \in AllToolCalls :
             AgentDirectSettles(u, src, 0, tc)
    /\ UNCHANGED <<mcpKey, a2aKey, gatewayVars, a2aVars, toolVars>>

\* a backend message that asks for one tool and says nothing else
ToolRequest ==
    [kind |-> "message", content |-> Absent, reasoning |-> Absent, toolCalls |-> 1]

\* the data source has the product
Found == [ok |-> TRUE, val |-> "product"]

\* no orchestration loop is suspended, in the agent or at the task endpoint,
\* and the bound leaves room for another one
Idle ==
    /\ DOMAIN loops = {}
    /\ DOMAIN calls = {}
    /\ Cardinality(DOMAIN taskStore) + UserTurns(agent.messages) < MaxLoops

\* the loop of utterance u is past the rounds in which the tools do as they like
InTail(u) == loops[u].rounds > MaxRounds

\* SpecLoop: one orchestration loop at a time, on the interactive channel,
\* on /api/chat or at the task endpoint.  The task endpoint is as in
\* SpecTask.  In the agent the backend asks for tools whenever it likes, up
\* to the ceiling: in the first MaxRounds rounds its messages and what the
\* tools do are arbitrary, in later rounds it sends ToolRequest for the
\* first tool of the catalog, the gateway is reached and the data source has
\* the product.
NextLoop ==
    /\ \/ /\ \/ \E req \in TaskRequests(KnownTasks, {Absent}) : HandleA2ARequest(req)
             \/ \E req \in TaskRequests(KnownTasks, {Absent}) : HandleGetTask(req)
             \/ /\ Idle
                /\ \E req \in TaskRequests(KnownTasks, {Absent}) :
                      HandleSendMessage(req, MaxLoops)
             \/ HandlerSettles
             \/ \E t \in DOMAIN calls, out \in LLMOutcomes, skip \in 0..MaxToolCalls :
                   CallLLMSettles(t, out, skip)
          /\ UNCHANGED agentVars
       \/ /\ \/ \E u \in 1..MaxLoops, message \in WSMessages :
                   Idle /\ CanStart(u, MaxLoops) /\ OnMessage(u, message)
             \/ \E u \in 1..MaxLoops, chat \in BOOLEAN :
                   Idle /\ CanStart(u, MaxLoops) /\ OnRequest(u, chat)
             \/ \E u \in DOMAIN loops, net \in NetOutcomes :
                   AgentCatalogSettles(u, net)
             \/ \E u \in DOMAIN loops, net \in NetOutcomes :
                   /\ InTail(u) => net = "served"
                   /\ AgentToolInitSettles(u, net)
             \/ \E u \in DOMAIN loops, out \in LLMOutcomesUpTo(MaxChatCalls),
                   skip \in 0..MaxChatCalls, tc \in AllToolCalls :
                   /\ (out.toolCalls > 0 /\ loops[u].rounds >= MaxRounds)
                         => /\ out = ToolRequest
                            /\ skip = 0
                            /\ tc \in {NoToolCall,
                                        [name |-> MCP_TOOLS[1], arguments |-> "{barcode}"]}
                   /\ AgentCallLLMSettles(u, out, skip, tc)
             \/ \E u \in DOMAIN loops, net \in NetOutcomes,
                   src \in DataSourceOutcomes, skip \in 0..MaxChatCalls,
                   tc \in AllToolCalls :
                   /\ InTail(u) => net = "served" /\ src = Found
                   /\ AgentToolCallSettles(u, net, src, skip, tc)
             \/ \E u \in DOMAIN loops, src \in DataSourceOutcomes,
                   skip \in 0..MaxChatCalls, tc \in AllToolCalls :
                   /\ InTail(u) => src = Found
                   /\ AgentDirectSettles(u, src, skip, tc)
          /\ UNCHANGED a2aVars
    /\ UNCHANGED <<mcpKey, a2aKey, gatewayVars, toolVars>>

\* initialState.messages = [], mcpClient = null, llmTools = null
InitAgent ==
    /\ agent = [messages |-> <<>>, mcpClient |-> NewMcpClient, llmTools |-> "null"]
    /\ loops = EmptyMap
    /\ agentOut = NoAgentOut

----------------------------------------------------------------------------
(* tools.ts: compareProducts.  Every barcode gets its own                  *)
(* getProductByBarcode promise; the promises settle in any order and       *)
(* Promise.allSettled resolves when the last one has settled.              *)

Barcodes == {"b1", "b2", "b3"}

\* what the data source does for one lookup: it has the product, it has
\* none, or it answers with an HTTP error (offFetch throws)
LookupOutcomes == {"product", "no product", "http error"}

\* summarise(data.product): the summary carries the code of the product
summarise(barcode) == "summary of " \o barcode

\* getProductByBarcode(barcode): the promise settles fulfilled with the
\* summary, or rejected with the Error
getProductByBarcode(barcode, src) ==
    CASE src = "product" ->
           [status |-> "fulfilled", value |-> summarise(barcode)]
      [] src = "no product" ->
           [status |-> "rejected",
            value |-> "Product not found for barcode " \o barcode]
      [] OTHER ->
           [status |-> "rejected", value |-> "OpenFoodFacts 500"]

PendingLookup == [status |-> "pending", value |-> Absent]

RECURSIVE FulfilledValues(_)
\* results.filter(r => r.status === "fulfilled").map(r => r.value)
FulfilledValues(results) ==
    IF results = <<>> THEN <<>>
    ELSE IF Head(results).status = "fulfilled"
         THEN <<Head(results).value>> \o FulfilledValues(Tail(results))
         ELSE FulfilledValues(Tail(results))

\* mutant: the summaries are collected as the lookups finish
compareProductsReturn_AsSettled(results, order) ==
    FulfilledValues([k \in 1..Len(order) |-> results[order[k]]])

\* the array compareProducts returns: Promise.allSettled keeps each result
\* at the index of its promise, whatever the order `order` of settling
compareProductsReturn(results, order) == FulfilledValues(results)

\* no call of compareProducts has been made
NoCompare ==
    [pc |-> "idle", given |-> FALSE, barcodes |-> <<>>, results |-> <<>>,
     order |-> <<>>, srcs |-> <<>>, threw |-> FALSE, ret |-> <<>>]

InitTools == compare = NoCompare

\* compareProducts(barcodes) up to its await.  `given` is FALSE when
\* args.barcodes is undefined: barcodes.map throws and the call rejects.
\* With no barcode Promise.allSettled resolves at once.
CompareProducts(given, barcodes) ==
    /\ compare.pc \in {"idle", "done"}
    /\ ~given => barcodes = <<>>
    /\ compare' =
         IF ~given
         THEN [NoCompare EXCEPT !.pc = "done", !.threw = TRUE]
         ELSE IF barcodes = <<>>
              THEN [NoCompare EXCEPT !.pc = "done", !.given = TRUE,
                                     !.ret = compareProductsReturn(<<>>, <<>>)]
              ELSE [NoCompare EXCEPT !.pc = "run", !.given = TRUE,
                       !.barcodes = barcodes,
                       !.results = [i \in 1..Len(barcodes) |-> PendingLookup],
                       !.srcs = [i \in 1..Len(barcodes) |-> "pending"]]

\* the lookup of barcode i settles; when it is the last one to settle
\* compareProducts returns
SubLookupSettles(i, src) ==
    /\ compare.pc = "run"
    /\ i \in 1..Len(compare.barcodes)
    /\ compare.results[i].status = "pending"
    /\ LET results == [compare.results EXCEPT
                          ![i] = getProductByBarcode(compare.barcodes[i], src)]
           order   == Append(compare.order, i)
           srcs    == [compare.srcs EXCEPT ![i] = src]
           settled == \A k \in 1..Len(results) : results[k].status /= "pending"
       IN  compare' =
             IF settled
             THEN [compare EXCEPT !.pc = "done", !.results = results,
                                  !.order = order, !.srcs = srcs,
                                  !.ret = compareProductsReturn(results, order)]
             ELSE [compare EXCEPT !.results = results, !.order = order,
                                  !.srcs = srcs]

\* SpecCompare: compare_products is called with up to MaxBarcodes barcodes,
\* one call at a time, and its lookups settle in any order
NextCompare ==
    /\ \/ \E given \in BOOLEAN, barcodes \in SeqsUpTo(Barcodes, MaxBarcodes) :
             CompareProducts(given, barcodes)
       \/ \E i \in 1..MaxBarcodes, src \in LookupOutcomes : SubLookupSettles(i, src)
    /\ UNCHANGED <<mcpKey, a2aKey, uuidCount, sessions, gatewayVars, a2aVars,
                   agentVars, loopEvent>>

----------------------------------------------------------------------------
(* Specifications                                                          *)

Init ==
    /\ InitGateway
    /\ InitA2A
    /\ InitAgent
    /\ InitTools
    /\ a2aKey = Absent

\* both secrets are set: the McpClient of the handler presents MCP_API_KEY
InitTasks ==
    /\ InitGateway
    /\ mcpKey = "secret"
    /\ InitA2A
    /\ InitAgent
    /\ InitTools
    /\ a2aKey = "a2a-secret"

\* the bodies of POST /mcp in SpecEndpoints: every kind of JSON value alone
\* and in a batch
EndpointBodies ==
    { [kind |-> "unparsable", items |-> <<>>] }
    \cup { [kind |-> "single", items |-> <<e>>] :
             e \in { Ping("a"), Lookup("a"), NullEnvelope, ScalarEnvelope,
                     [Ping("a") EXCEPT !.method = "resources/list"],
                     [Ping("a") EXCEPT !.jsonrpc = Absent, !.method = Absent] } }
    \cup { [kind |-> "batch", items |-> q] :
             q \in { <<>>, <<Ping("a")>>, <<NullEnvelope>>, <<ScalarEnvelope>>,
                     <<Ping("a"), NullEnvelope>>, <<Lookup("a"), ScalarEnvelope>> } }

\* SpecEndpoints: the gateway and the task endpoint of one Worker, each with
\* its key set or not, serve requests with and without the bearer token and
\* with every kind of body, one request at a time; the backend is that of
\* SpecAgent and stops asking for tools after MaxRounds rounds
NextEndpoints ==
    \/ /\ DOMAIN calls = {}
       /\ \/ /\ post.pc = "idle"
             /\ \E req \in McpRequests(uuidCount) :
                   HandleMcpRequestSync(req, MaxRpcUuid)
          \/ \E req \in McpRequests(uuidCount) : HandleMcpRequestPost(req)
          \/ \E body \in EndpointBodies : HandleMcpRequestBody(body, MaxRpcUuid)
          \/ \E i \in 1..MaxBatch, src \in DataSourceOutcomes :
                ToolExecutorSettles(i, src)
          \/ HandleMcpRequestRespond(MaxRpcUuid)
       /\ a2aResp' = NoA2AResponse
       /\ loopEvent' = NoLoopEvent
       /\ UNCHANGED <<a2aKey, taskStore, calls, a2aSent, agentVars, toolVars>>
    \/ /\ post.pc = "idle"
       /\ \/ \E req \in A2ARequests(KnownTasks) : HandleA2ARequest(req)
          \/ \E req \in A2ARequests(KnownTasks) : HandleGetTask(req)
          \/ /\ DOMAIN calls = {}
             /\ \E req \in A2ARequests(KnownTasks) :
                   HandleSendMessage(req, MaxLoopTasks)
          \/ HandlerSettles
          \/ \E t \in DOMAIN calls, out \in ChatOutcomes :
                /\ out.toolCalls > 0 => RoundsUsed(t) < MaxRounds
                /\ CallLLMSettles(t, out, 0)
       /\ resp' = NoResponse
       /\ lastSession' = NoSessionCall
       /\ UNCHANGED <<mcpKey, a2aKey, post, agentVars, toolVars>>

\* each of the two secrets is set or not
InitEndpoints ==
    /\ InitGateway
    /\ InitA2A
    /\ InitAgent
    /\ InitTools
    /\ a2aKey \in {Absent, "a2a-secret"}

SpecRpc == Init /\ [][NextRpc]_vars

SpecSessions == Init /\ [][NextSessions]_vars

SpecA2A == InitTasks /\ [][NextA2A]_vars

SpecTask == InitTasks /\ [][NextTask]_vars

LiveSpecTask == SpecTask /\ TaskFairness

SpecEndpoints == InitEndpoints /\ [][NextEndpoints]_vars

SpecCompare == Init /\ [][NextCompare]_vars

SpecAgent == InitTasks /\ [][NextAgent]_vars

SpecLoop == InitTasks /\ [][NextLoop]_vars

----------------------------------------------------------------------------
(* Properties of the gateway                                               *)

\* the latest step returned a Response to a POST whose body was dispatched
PostAnswered == resp.status > 0 /\ resp.req.verb = "POST" /\ resp.req.body.kind /= "none"

RespItems == resp.req.body.items

IsToolCall(e) == e.shape = "object" /\ e.method = "tools/call"

NamesCatalogTool(e) == e.params.has /\ e.params.name \in McpToolNames

InBody(r) == \E k \in 1..Len(resp.body) : resp.body[k] = r

\* C1: tools/call with a name that is not in the catalog (or with no name) is
\* answered with a JSON-RPC error of code -32602 and dispatchTool is not called
\* for it, whatever the arguments, the identifier and the session registry.
C1_UnknownToolIsInvalidParams ==
    /\ \A i \in 1..Len(post.items) :
          LET e == post.body.items[i]
          IN  (IsToolCall(e) /\ ~NamesCatalogTool(e)) =>
                 /\ ~post.items[i].ran
                 /\ post.items[i].st = "done"
                 /\ post.items[i].res.tag = "error"
                 /\ post.items[i].res.code = -32602
    /\ \A i \in 1..Len(resp.ran) :
          (IsToolCall(RespItems[i]) /\ ~NamesCatalogTool(RespItems[i])) => ~resp.ran[i]
    /\ PostAnswered =>
          \A i \in 1..Len(RespItems) :
             (IsToolCall(RespItems[i]) /\ ~NamesCatalogTool(RespItems[i])) =>
                /\ resp.results[i].tag = "error"
                /\ resp.results[i].code = -32602
                /\ resp.results[i].id = ResponseId(RespItems[i])
                /\ resp.status = 200
                /\ InBody(resp.results[i])

\* C1 witness: a tools/call naming "delete_everything", with arguments, sent
\* with a registered session identifier, was answered with the -32602 error
C1_Witness ==
    /\ PostAnswered
    /\ resp.req.body.kind = "single"
    /\ IsToolCall(RespItems[1])
    /\ RespItems[1].params.name = "delete_everything"
    /\ RespItems[1].params.arguments = "{barcode}"
    /\ resp.req.sid \in sessions
    /\ resp.body[1].code = -32602

\* C2: tools/call with a catalog name is answered with a JSON-RPC result whose
\* isError is FALSE (content: the serialised value) when the executor returned
\* and TRUE (content: the failure text) when it threw; the failure is never a
\* JSON-RPC error object and never rejects the handler.
C2_ToolCallResultEnvelope ==
    /\ PostAnswered =>
          \A i \in 1..Len(RespItems) :
             (IsToolCall(RespItems[i]) /\ NamesCatalogTool(RespItems[i])) =>
                LET r == resp.results[i]
                    o == resp.outs[i]
                IN  /\ resp.ran[i]
                    /\ o \in DataSourceOutcomes
                    /\ r.tag = "result"
                    /\ r.id = ResponseId(RespItems[i])
                    /\ r.result.kind = "content"
                    /\ r.result.isError = ~o.ok
                    /\ o.ok => r.result.text = JSONstringify(o.val)
                    /\ ~o.ok => r.result.text = "Error: " \o o.val
                    /\ resp.status = 200
                    /\ InBody(r)
    /\ resp.bodyKind = "thrown" =>
          \E i \in 1..Len(RespItems) : RespItems[i].shape = "null"

\* C2 witness: a catalog tool whose executor threw was answered with isError TRUE
C2_Witness ==
    /\ PostAnswered
    /\ resp.req.body.kind = "single"
    /\ IsToolCall(RespItems[1])
    /\ RespItems[1].params.name = "compare_products"
    /\ ~resp.outs[1].ok
    /\ resp.body[1].result.isError

RECURSIVE WithId(_)
\* the envelopes of a batch that carry an identifier, in request order
WithId(items) ==
    IF items = <<>> THEN <<>>
    ELSE IF Head(items).id = Absent THEN WithId(Tail(items))
         ELSE <<Head(items)>> \o WithId(Tail(items))

\* a batch of envelopes (JSON objects) was answered
BatchAnswered ==
    /\ PostAnswered
    /\ resp.req.body.kind = "batch"
    /\ \A i \in 1..Len(RespItems) : RespItems[i].shape = "object"

\* C3: a batch whose items are all notifications (envelopes without an
\* identifier; the empty batch included) is answered 202 without a body; any
\* other batch is answered with an array holding one entry per envelope that
\* carries an identifier, in request order.
C3_BatchResponseShape ==
    BatchAnswered =>
       LET expected == WithId(RespItems)
       IN  IF expected = <<>>
           THEN resp.status = 202 /\ resp.bodyKind = "none"
           ELSE /\ resp.bodyKind = "array"
                /\ Len(resp.body) = Len(expected)
                /\ \A k \in 1..Len(expected) : resp.body[k].id = expected[k].id

\* C4: an envelope without an identifier produces no response body, whatever
\* its method: alone it is answered 202 without a body, in a batch it adds no
\* entry to the array.
C4_NotificationHasNoBody ==
    PostAnswered =>
       /\ \A i \in 1..Len(RespItems) :
             (RespItems[i].shape = "object" /\ RespItems[i].id = Absent) =>
                resp.results[i].tag = "null"
       /\ (/\ resp.req.body.kind = "single"
           /\ RespItems[1].shape = "object"
           /\ RespItems[1].id = Absent) =>
             resp.status = 202 /\ resp.bodyKind = "none"

\* the identifiers randomUUID has issued so far
Issued == { randomUUID(k) : k \in 1..uuidCount }

\* C5: whenever the gateway resolves the session of a request (every GET, every
\* POST whose body parsed): an identifier that is in the registry is returned
\* unchanged and the registry is unchanged; otherwise (none presented, never
\* issued, or closed) a new identifier is minted, added to the registry, and it
\* differs from every registered identifier and from the presented one.  The
\* Response of that request carries the resolved identifier.
C5_SessionResolution ==
    /\ lastSession.called =>
          IF Truthy(lastSession.presented) /\ lastSession.presented \in lastSession.before
          THEN /\ lastSession.returned = lastSession.presented
               /\ lastSession.after = lastSession.before
          ELSE /\ lastSession.returned \notin lastSession.before
               /\ lastSession.returned /= lastSession.presented
               /\ Truthy(lastSession.returned)
               /\ lastSession.after = lastSession.before \cup {lastSession.returned}
    /\ lastSession.called => sessions = lastSession.after
    /\ (lastSession.called /\ resp.status > 0) =>
          resp.sessionHeader = lastSession.returned
    /\ (lastSession.called /\ resp.status = 0) =>
          post.pc = "run" /\ post.sessionId = lastSession.returned
    /\ (PostAnswered /\ resp.req.body.kind = "single" /\ resp.status \in {200, 202}) =>
          /\ resp.sessionHeader \in Issued
          /\ resp.req.sid \in sessions => resp.sessionHeader = resp.req.sid

\* C5 witness: after two sessions were minted and the first one closed, a
\* request presenting the second gets it back
C5_Witness ==
    /\ lastSession.called
    /\ lastSession.before = {randomUUID(2)}
    /\ lastSession.presented = randomUUID(2)
    /\ lastSession.returned = randomUUID(2)
    /\ resp.sessionHeader = randomUUID(2)

\* C6 (as claimed): every Response the gateway returns carries a session
\* identifier in Mcp-Session-Id.
C6_EveryResponseCarriesSession ==
    resp.status > 0 => Truthy(resp.sessionHeader)

\* C6 (amended): the Responses to a GET and to a POST whose body parsed (200
\* and 202) carry an identifier the gateway issued; the 401, 405, 415 and 400
\* error responses and the 204 of the session close carry none.
C6_SessionHeaderOnServedRequests ==
    resp.status > 0 =>
       IF \/ resp.req.verb = "GET" /\ resp.status = 200
          \/ resp.req.verb = "POST" /\ resp.status \in {200, 202}
       THEN resp.sessionHeader \in Issued
       ELSE /\ resp.status \in {204, 400, 401, 405, 415}
            /\ resp.sessionHeader = Absent

\* C6 witness: a notification was acknowledged with 202 and a session identifier
C6_Witness ==
    /\ PostAnswered
    /\ resp.status = 202
    /\ resp.sessionHeader \in sessions

\* C7: the session close removes the named session and nothing else, draws no
\* identifier, and answers 204 without body or session header whether or not
\* the session was registered or named.
C7_SessionCloseIdempotent ==
    [][ (resp' /= resp /\ resp'.req.verb = "DELETE" /\ resp'.status /= 401) =>
           /\ resp'.status = 204
           /\ resp'.bodyKind = "none"
           /\ resp'.body = <<>>
           /\ resp'.sessionHeader = Absent
           /\ sessions' = sessions \ {resp'.req.sid}
           /\ uuidCount' = uuidCount
           /\ post' = post ]_vars

\* C7 witness: a close naming an already closed session was answered 204 while
\* another session is registered
C7_Witness ==
    /\ resp.req.verb = "DELETE"
    /\ resp.status = 204
    /\ resp.req.sid = randomUUID(1)
    /\ sessions = {randomUUID(2)}

----------------------------------------------------------------------------
(* Properties of the task endpoint                                         *)

Terminal(t) ==
    t \in DOMAIN taskStore /\ taskStore[t].state \in {"completed", "failed"}

\* C8: every task created by SendMessage eventually reaches a terminal state,
\* completed or failed, when every backend and tool call eventually returns
\* or fails; and a task that is completed or failed keeps that state, so it
\* never has both.
C8_TaskReachesOneTerminalState ==
    /\ \A t \in TaskIds(MaxLoopTasks) : (t \in DOMAIN taskStore) ~> Terminal(t)
    /\ [][\A t \in DOMAIN taskStore :
            Terminal(t) => /\ t \in DOMAIN taskStore'
                           /\ taskStore'[t].state = taskStore[t].state]_vars

\* SendMessage has just returned a task that completed with the content of
\* the backend's last message, and no handler is suspended
C8_Witness ==
    /\ a2aResp.kind = "result"
    /\ a2aResp.req.body.method = "SendMessage"
    /\ a2aResp.task.state = "completed"
    /\ a2aResp.task.artifacts[1].text = "answer"
    /\ Terminal(a2aResp.task.id)
    /\ DOMAIN calls = {}

\* C9: a task record in a terminal state is never changed again: no step of
\* a SendMessage, of a GetTask or of another task's orchestration changes its
\* state, its artifacts or its status message, or removes it.
C9_TerminalTaskNeverChanges ==
    [][\A t \in DOMAIN taskStore :
          Terminal(t) => /\ t \in DOMAIN taskStore'
                         /\ taskStore'[t] = taskStore[t]]_vars

\* a task is terminal while the handler of another task, past its first tool
\* round, is suspended
C9_Witness ==
    \E t \in DOMAIN taskStore, u \in DOMAIN calls :
        /\ Terminal(t)
        /\ calls[u].iterations < iterations
        /\ taskStore[u].state = "working"

\* C10: a GetTask request changes neither the task store nor a suspended
\* handler, and GetTask for a task that SendMessage returned as completed is
\* answered, at any time and any number of times, with a result whose
\* artifacts are those of the SendMessage response.
C10_GetTaskIsPureRead ==
    [][(a2aResp'.status > 0 /\ a2aResp'.req.body.method = "GetTask")
          => /\ taskStore' = taskStore
             /\ calls' = calls
             /\ a2aSent' = a2aSent
             /\ \A t \in DOMAIN a2aSent :
                   (/\ a2aResp'.req.body.params.id = t
                    /\ a2aSent[t].state = "completed"
                    /\ a2aResp'.status /= 401)
                   => /\ a2aResp'.kind = "result"
                      /\ a2aResp'.task.id = t
                      /\ a2aResp'.task.artifacts = a2aSent[t].artifacts]_vars

\* GetTask has answered with a completed task and its artifact while another
\* task is being worked on
C10_Witness ==
    /\ a2aResp.kind = "result"
    /\ a2aResp.req.body.method = "GetTask"
    /\ a2aResp.task.state = "completed"
    /\ Len(a2aResp.task.artifacts) = 1
    /\ \E u \in DOMAIN calls : u /= a2aResp.task.id

\* C11: GetTask with an identifier that is not in the task store is answered
\* with a JSON-RPC error object (code -32000, "Task not found: <id>", no
\* result), and GetTask with an identifier of the store is answered with a
\* result that is the record the store holds at that moment.
C11_GetTaskFoundOrNotFound ==
    [][(a2aResp'.status > 0 /\ a2aResp'.req.body.method = "GetTask")
          => LET id == a2aResp'.req.body.params.id
             IN  IF id \in DOMAIN taskStore
                 THEN /\ a2aResp'.kind = "result"
                      /\ a2aResp'.status = 200
                      /\ a2aResp'.id = a2aResp'.req.body.id
                      /\ a2aResp'.task = taskStore[id]
                 ELSE /\ a2aResp'.kind = "error"
                      /\ a2aResp'.status = 200
                      /\ a2aResp'.id = a2aResp'.req.body.id
                      /\ a2aResp'.code = -32000
                      /\ a2aResp'.message = "Task not found: " \o id
                      /\ a2aResp'.task = NoTask]_vars

\* GetTask for an identifier that is not in the store was answered with the
\* error object while the store holds a failed task and a working one
C11_Witness ==
    /\ a2aResp.kind = "error"
    /\ a2aResp.req.body.method = "GetTask"
    /\ a2aResp.req.body.params.id \notin DOMAIN taskStore
    /\ a2aResp.message = "Task not found: unknown"
    /\ \E t, u \in DOMAIN taskStore :
          taskStore[t].state = "failed" /\ taskStore[u].state = "working"

----------------------------------------------------------------------------
(* Properties of the orchestration loop                                    *)

\* the loops that are suspended, of the task endpoint and of the agent
Suspended ==
    { [pc |-> calls[t].pc, llmCalls |-> calls[t].llmCalls,
       rounds |-> calls[t].rounds, requested |-> calls[t].requested,
       toolTurns |-> calls[t].toolTurns, todo |-> calls[t].todo] :
         t \in DOMAIN calls } \cup
    { [pc |-> loops[u].pc, llmCalls |-> loops[u].llmCalls,
       rounds |-> loops[u].rounds, requested |-> loops[u].requested,
       toolTurns |-> loops[u].toolTurns, todo |-> loops[u].todo] :
         u \in DOMAIN loops }

\* C12: for one utterance, whatever the backend answers, the loop enters at
\* most 8 tool rounds and calls the backend at most 9 times, on the
\* interactive channel, on /api/chat and at the task endpoint: a suspended
\* loop has made at most 8 backend calls when it waits for the backend, and
\* a step of a loop leaves at most 8 rounds and 9 backend calls behind it.
C12_LoopCeiling ==
    /\ \A c \in Suspended :
          /\ c.rounds <= 8
          /\ c.llmCalls <= 9
          /\ c.pc = "llm" => c.llmCalls <= 8
    /\ loopEvent.rounds <= 8
    /\ loopEvent.llmCalls <= 9

\* the loop of an utterance on the interactive channel has ended with the
\* ninth answer of a backend that asked for tools nine times
C12_Witness ==
    /\ loopEvent.path = "ws"
    /\ loopEvent.kind = "answer"
    /\ loopEvent.rounds = 8
    /\ loopEvent.llmCalls = 9
    /\ loopEvent.pending > 0

RECURSIVE ToolTurns(_)
\* the number of tool messages of a history
ToolTurns(history) ==
    IF history = <<>> THEN 0
    ELSE (IF Head(history).role = "tool" THEN 1 ELSE 0) + ToolTurns(Tail(history))

RECURSIVE Requested(_)
\* the number of tool calls of the assistant messages of a history
Requested(history) ==
    IF history = <<>> THEN 0
    ELSE Head(history).calls + Requested(Tail(history))

RECURSIVE SinceLastUser(_)
\* the turns of a history after its last user turn: those of the loop that
\* pushed that user turn
SinceLastUser(history) ==
    IF history = <<>> \/ history[Len(history)].role = "user" THEN <<>>
    ELSE Append(SinceLastUser(SubSeq(history, 1, Len(history) - 1)),
                history[Len(history)])

\* in a history every assistant message with k tool calls is followed by
\* exactly k tool messages and then by an assistant message, and no tool
\* message stands elsewhere
ToolTurnsFollowRequests(history) ==
    /\ ToolTurns(history) = Requested(history)
    /\ \A i \in 1..Len(history) :
          history[i].calls > 0 =>
             /\ i + history[i].calls + 1 <= Len(history)
             /\ \A j \in 1..history[i].calls : history[i + j].role = "tool"
             /\ history[i + history[i].calls + 1].role = "assistant"

\* C13 as stated: a loop that ends with an answer after N tool rounds has
\* pushed exactly N tool messages.
C13_OneToolTurnPerRound ==
    loopEvent.kind = "answer" => loopEvent.toolTurns = loopEvent.rounds

\* C13 amended: a loop that ends with an answer has pushed exactly one tool
\* message for every tool call the backend asked for in the rounds that were
\* entered (as many as rounds only when every round asks for one tool), each
\* round's tool messages right after its assistant message and all of them
\* before the final answer turn, which is the last turn of the persisted
\* history; while a loop is suspended the tool messages pushed and the tool
\* calls still to run add up to the tool calls asked for.  The tool messages
\* counted are those of the loop, after its user turn: the history also
\* holds the turns of the utterances answered before.
C13_OneToolTurnPerInvocation ==
    /\ loopEvent.kind = "answer" =>
          /\ loopEvent.toolTurns = loopEvent.requested
          /\ loopEvent.toolTurns >= loopEvent.rounds
    /\ \A c \in Suspended : c.toolTurns + c.todo = c.requested
    /\ \A u \in DOMAIN loops :
          loops[u].pc = "llm" =>
             ToolTurns(SinceLastUser(loops[u].history)) = loops[u].requested
    /\ ToolTurnsFollowRequests(agent.messages)
    /\ (loopEvent.kind = "answer" /\ loopEvent.path \in AgentPaths) =>
          /\ loopEvent.turns = <<agent.messages[Len(agent.messages)]>>
          /\ agent.messages[Len(agent.messages)].role = "assistant"
          /\ agent.messages[Len(agent.messages)].calls = 0
          /\ ToolTurns(SinceLastUser(agent.messages)) = loopEvent.toolTurns

\* an utterance was answered after one round in which the backend asked for
\* two tools: two tool messages stand before the final answer turn
C13_Witness ==
    /\ loopEvent.kind = "answer"
    /\ loopEvent.path = "ws"
    /\ loopEvent.rounds = 1
    /\ loopEvent.toolTurns = 2
    /\ Len(agent.messages) = 5
    /\ agent.messages[3].role = "tool"
    /\ agent.messages[4].role = "tool"

\* responseText = assistantMsg.content ?? ""
OrEmpty(content) == IF content = Absent THEN "" ELSE content

\* C14: when the backend still asks for tools at its ninth answer the loop
\* stops: the tools it asks for are not run (no tool message is pushed for
\* them and the loop is no longer suspended) and the content of that answer,
\* empty when it has none, is the final answer: a response envelope on the
\* interactive channel, the JSON body on /api/chat, and a completed task
\* with that text at the task endpoint.
C14_CeilingReturnsLastContent ==
    (loopEvent.kind = "answer" /\ loopEvent.pending > 0) =>
       /\ loopEvent.rounds = 8
       /\ loopEvent.llmCalls = 9
       /\ loopEvent.toolTurns = loopEvent.requested
       /\ \A k \in 1..Len(loopEvent.turns) : loopEvent.turns[k].role /= "tool"
       /\ loopEvent.id \notin DOMAIN loops \cup DOMAIN calls
       /\ CASE loopEvent.path = "ws" ->
                 /\ agentOut = AgentOut("response", OrEmpty(loopEvent.said), loopEvent.id)
                 /\ agent.messages[Len(agent.messages)] =
                       Turn("assistant", OrEmpty(loopEvent.said), 0)
            [] loopEvent.path = "http" ->
                 /\ agentOut = AgentOut("json", loopEvent.said, loopEvent.id)
                 /\ agent.messages[Len(agent.messages)] =
                       Turn("assistant", OrEmpty(loopEvent.said), 0)
            [] OTHER ->
                 /\ a2aResp.kind = "result"
                 /\ a2aResp.status = 200
                 /\ a2aResp.task.state = "completed"
                 /\ a2aResp.task.artifacts[1].text = OrEmpty(loopEvent.said)
                 /\ taskStore[loopEvent.id] = a2aResp.task

\* a task has completed with an empty text: the ninth answer of the backend
\* had no content and asked for a tool once more
C14_Witness ==
    /\ loopEvent.kind = "answer"
    /\ loopEvent.path = "task"
    /\ loopEvent.pending > 0
    /\ loopEvent.said = Absent
    /\ a2aResp.task.state = "completed"
    /\ a2aResp.task.artifacts[1].text = ""

\* C15: for one agent instance at most one orchestration loop is active at
\* any time: an utterance that arrives while a loop is suspended on a backend
\* or tool call does not start its own loop before that loop has ended.
C15_AtMostOneActiveLoop == Cardinality(DOMAIN loops) <= 1

----------------------------------------------------------------------------
(* Properties of tool failures and faults                                  *)

\* the latest step was a step of a SendMessage loop in which a tool call
\* settled with a failure
TaskToolFailed ==
    /\ loopEvent.path = "task"
    /\ loopEvent.kind = "tool"
    /\ loopEvent.tool.via = "caught"

\* the text of the Error mcpClient.callTool throws for a tool run
CallToolFailure(run) ==
    CASE run.net = "unreachable" -> "fetch failed"
      [] run.name \notin McpToolNames ->
           "MCP error -32602: Unknown tool: " \o run.name
      [] OTHER -> "Error: " \o run.src.val

\* C16: a tool invocation that fails during a SendMessage loop (the lookup
\* finds nothing, the tool is unknown, the gateway is not reached, the
\* arguments do not parse) becomes a tool message that carries the text of
\* the failure; the task stays working and its loop stays suspended; and
\* when the next step of that loop ends the task, it ends it as the backend
\* call made in that step says: completed when the backend answers.
C16_ToolFailureIsAbsorbed ==
    /\ [](TaskToolFailed =>
            /\ loopEvent.turns[1].role = "tool"
            /\ loopEvent.turns[1].content =
                  "{error:Error: " \o CallToolFailure(loopEvent.tool) \o "}"
            /\ loopEvent.id \in DOMAIN calls
            /\ taskStore[loopEvent.id].state = "working")
    /\ []((loopEvent.path = "task" /\ loopEvent.kind \in {"round", "tool"}) =>
            /\ \A k \in 2..Len(loopEvent.turns) : loopEvent.turns[k].content = ParseErrorTurn(k).content
            /\ loopEvent.id \in DOMAIN calls
            /\ taskStore[loopEvent.id].state = "working")
    /\ []((loopEvent.path = "task" /\ loopEvent.kind = "fault") =>
            loopEvent.tool = NoToolRun)
    /\ [][(/\ loopEvent.path = "task"
           /\ loopEvent.kind \in {"round", "tool"}
           /\ loopEvent'.id = loopEvent.id
           /\ loopEvent'.kind \in {"answer", "fault"})
          => /\ loopEvent'.llmCalls = loopEvent.llmCalls + 1
             /\ taskStore'[loopEvent.id].state =
                   IF loopEvent'.kind = "answer" THEN "completed" ELSE "failed"]_vars

\* a lookup that found nothing has just been pushed as the second tool message
\* (or a later one) of a task, and the loop waits for the backend
C16_Witness ==
    /\ TaskToolFailed
    /\ loopEvent.tool.name = "get_product_by_barcode"
    /\ loopEvent.tool.net = "served"
    /\ loopEvent.toolTurns >= 2
    /\ calls[loopEvent.id].pc = "llm"

\* C17: a fault raised in the orchestration of a task (the backend is not
\* reached, answers with an error status or with a body without choices; the
\* gateway fails while the tool catalog is fetched) leaves the task failed,
\* with a status message of role agent whose text is "Error: " and the
\* message of the fault, and SendMessage returns that task as the result of
\* a JSON-RPC response of status 200, not as a JSON-RPC error.
C17_FaultFailsTheTask ==
    (loopEvent.path = "task" /\ loopEvent.kind = "fault") =>
       /\ loopEvent.id \notin DOMAIN calls
       /\ taskStore[loopEvent.id].state = "failed"
       /\ taskStore[loopEvent.id].message.has
       /\ taskStore[loopEvent.id].message.role = "agent"
       /\ taskStore[loopEvent.id].message.text = "Error: " \o loopEvent.said
       /\ taskStore[loopEvent.id].artifacts = <<>>
       /\ a2aResp.status = 200
       /\ a2aResp.kind = "result"
       /\ a2aResp.req.body.method = "SendMessage"
       /\ a2aResp.id = a2aResp.req.body.id
       /\ a2aResp.task = taskStore[loopEvent.id]

\* the backend answered the second call of a task with an error status,
\* after a tool round
C17_Witness ==
    /\ loopEvent.path = "task"
    /\ loopEvent.kind = "fault"
    /\ loopEvent.said = "GLM API 500"
    /\ loopEvent.llmCalls = 2
    /\ loopEvent.toolTurns = 1
    /\ a2aResp.task.state = "failed"

\* C18: on the interactive channel, on /api/chat and at the task endpoint, a
\* gateway that is not reached while the tool catalog is fetched does not
\* make the utterance or the task fail: no loop ends with the failure of
\* that fetch, before its first backend call; and in the agent the static
\* catalog is in use from then on.
C18_CatalogFallback ==
    /\ ~(/\ loopEvent.kind = "fault"
         /\ loopEvent.llmCalls = 0
         /\ loopEvent.said = "fetch failed")
    /\ \A u \in DOMAIN loops :
          loops[u].pc \in {"llm", "tool/initialize", "tool/initialized",
                           "tool/call", "direct"}
             => agent.llmTools \in {"gateway", "static"}

\* the gateway call of the tool run failed: the gateway was not reached, or
\* it answered with a JSON-RPC error (the tool is not in its catalog)
GatewayCallFailed(run) ==
    \/ run.net = "unreachable"
    \/ run.net = "served" /\ run.name \notin McpToolNames

\* C19: on every path, when the gateway call of a tool invocation fails, the
\* same invocation is run by the direct executor and what it returns or
\* throws becomes the tool message: the product as the gateway would have
\* sent it, or the error of the executor.
C19_DirectExecutorFallback ==
    (loopEvent.kind = "tool" /\ GatewayCallFailed(loopEvent.tool)) =>
       /\ loopEvent.tool.direct /= NoOutcome
       /\ loopEvent.turns[1].role = "tool"
       /\ loopEvent.turns[1].content =
             IF loopEvent.tool.direct.ok
             THEN JSONstringify(loopEvent.tool.direct.val)
             ELSE "{error:Error: " \o loopEvent.tool.direct.val \o "}"

----------------------------------------------------------------------------
(* Properties of envelope validation at the gateway                        *)

\* the methods handleRpcMethod serves
ServedMethods ==
    { "initialize", "ping", "tools/list", "tools/call",
      "notifications/initialized", "notifications/cancelled" }

\* a JSON-RPC 2.0 envelope: an object with the protocol tag "2.0" and a method
WellFormed(e) == e.shape = "object" /\ e.jsonrpc = "2.0" /\ e.method /= Absent

\* the latest step ended a POST whose body was a single JSON value
SingleEnded == resp.status /= 0 /\ resp.req.verb = "POST" /\ resp.req.body.kind = "single"

\* the Response carries one JSON-RPC error object with one of `codes`
AnsweredWithError(codes) ==
    /\ resp.status > 0
    /\ resp.bodyKind = "object"
    /\ resp.body[1].tag = "error"
    /\ resp.body[1].code \in codes

\* C20, second half: a well-formed envelope whose method is not served is
\* answered with the error -32601
UnknownMethodIsNotFound ==
    (/\ SingleEnded
     /\ WellFormed(RespItems[1])
     /\ RespItems[1].method \notin ServedMethods) => AnsweredWithError({-32601})

\* C20: a body that parses as JSON but is not a JSON-RPC 2.0 envelope (no
\* protocol tag or a wrong one, no method) is answered with a parse error
\* (-32700) or an invalid-request error (-32600), and a well-formed envelope
\* with an unknown method is answered with the error -32601.
C20_MalformedEnvelopeIsRejected ==
    /\ (SingleEnded /\ ~WellFormed(RespItems[1])) =>
          AnsweredWithError({-32700, -32600})
    /\ UnknownMethodIsNotFound

----------------------------------------------------------------------------
(* Properties of the two endpoints together                                *)

\* the latest step ended a POST /mcp whose body parsed as JSON
McpBodyHandled ==
    resp.status /= 0 /\ resp.req.verb = "POST" /\ resp.req.body.kind \in {"single", "batch"}

\* the latest step ended a POST /a2a whose body parsed as JSON
A2ABodyHandled ==
    /\ a2aResp.status /= 0
    /\ a2aResp.req.verb = "POST"
    /\ ~checkA2AAuthRejects(a2aResp.req, a2aKey)
    /\ a2aResp.req.body.kind /= "unparsable"

\* C21: for every JSON body (object, array, null, number, string, or a batch
\* of such items) the gateway and the task endpoint return a Response that
\* is a JSON-RPC result or error (or the bodiless 202 of a notification): no
\* handler ends by throwing.
C21_NoFaultLeavesTheHandler ==
    /\ McpBodyHandled =>
          /\ resp.status > 0
          /\ resp.bodyKind \in {"object", "array", "none"}
    /\ A2ABodyHandled =>
          /\ a2aResp.status > 0
          /\ a2aResp.kind \in {"result", "error"}


\* the request of the latest step came without the bearer token `key`
\* (the continuation of a suspended handler carries a request that passed)
LacksToken(req, key) ==
    /\ req.verb /= "none"
    /\ req.auth.scheme /= "passed"
    /\ ~(req.auth.scheme = "Bearer" /\ req.auth.token = key)

\* a request without the token of a configured key was the latest to arrive
GatewayKeyMissed == Truthy(mcpKey) /\ LacksToken(resp.req, mcpKey)

TaskKeyMissed == Truthy(a2aKey) /\ LacksToken(a2aResp.req, a2aKey)

\* with no key configured no request is answered 401
NoKeyNoCheck ==
    /\ ~Truthy(mcpKey) => resp.status /= 401
    /\ ~Truthy(a2aKey) => a2aResp.status /= 401

\* a step that serves a request without the token leaves the session
\* registry and the task store as they are, starts no handler and runs no tool
KeyMissedChangesNothing ==
    [][ ((Truthy(mcpKey) /\ LacksToken(resp'.req, mcpKey))
           \/ (Truthy(a2aKey) /\ LacksToken(a2aResp'.req, a2aKey))) =>
          /\ UNCHANGED <<sessions, uuidCount, taskStore, calls, post, a2aSent>>
          /\ resp'.ran = <<>> ]_vars

\* C22 as stated: with a key configured, every request without the matching
\* bearer token is rejected (a 4xx Response), at both endpoints.
C22_EveryRequestWithoutTokenIsRejected ==
    /\ GatewayKeyMissed => resp.status \in 400..499
    /\ TaskKeyMissed => a2aResp.status \in 400..499

\* C22 amended: with a key configured, the gateway answers every request
\* without the matching bearer token with 401 and the error -32001, and the
\* task endpoint does so for every POST (it answers OPTIONS with 204 and any
\* other verb with 405 before it looks at the key); none of these requests is
\* dispatched and none changes the session registry or the task store, mints
\* or closes a session, creates a task or runs a tool.  With no key
\* configured no request is answered 401.
C22_NoDispatchWithoutToken ==
    /\ [](GatewayKeyMissed =>
            /\ resp.status = 401
            /\ resp.bodyKind = "object"
            /\ resp.body[1].code = -32001)
    /\ [](TaskKeyMissed =>
            CASE a2aResp.req.verb = "OPTIONS" -> a2aResp.status = 204
              [] a2aResp.req.verb = "POST" ->
                   /\ a2aResp.status = 401
                   /\ a2aResp.kind = "error"
                   /\ a2aResp.code = -32001
              [] OTHER -> a2aResp.status = 405)
    /\ []NoKeyNoCheck
    /\ KeyMissedChangesNothing

\* GetTask for a stored task came with a wrong token and was answered 401
\* while a session is registered
C22_Witness ==
    /\ TaskKeyMissed
    /\ a2aResp.status = 401
    /\ a2aResp.req.auth.scheme = "Bearer"
    /\ a2aResp.req.body.method = "GetTask"
    /\ a2aResp.req.body.params.id \in DOMAIN taskStore
    /\ sessions /= {}

----------------------------------------------------------------------------
(* Properties of the tool executors                                        *)

RECURSIVE SummariesOfFound(_, _)
\* the summaries of the barcodes the data source had a product for, in the
\* order of the barcodes
SummariesOfFound(barcodes, srcs) ==
    IF barcodes = <<>> THEN <<>>
    ELSE (IF Head(srcs) = "product" THEN <<summarise(Head(barcodes))>> ELSE <<>>)
         \o SummariesOfFound(Tail(barcodes), Tail(srcs))

\* C23: compare_products called with a list of barcodes does not fail,
\* whatever its sub-lookups do: it returns exactly the summaries of the
\* sub-lookups that succeeded, in the order of the input barcodes whatever
\* the order in which the lookups finished, and the empty list when all of
\* them failed.
C23_CompareDropsFailedLookups ==
    (compare.pc = "done" /\ compare.given) =>
       /\ ~compare.threw
       /\ compare.ret = SummariesOfFound(compare.barcodes, compare.srcs)
       /\ (\A i \in 1..Len(compare.srcs) : compare.srcs[i] /= "product") =>
             compare.ret = <<>>

\* three barcodes were compared; the lookup of the third finished first and
\* the lookup of the second failed: the first and third summaries are
\* returned, in this order
C23_Witness ==
    /\ compare.pc = "done"
    /\ compare.barcodes = <<"b1", "b2", "b3">>
    /\ compare.order = <<3, 2, 1>>
    /\ compare.srcs = <<"product", "no product", "product">>
    /\ compare.ret = <<summarise("b1"), summarise("b3")>>

----------------------------------------------------------------------------
(* Properties of the task lifecycle                                        *)

TaskStates == {"working", "completed", "failed"}

\* GetTask has just returned the stored task `a2aResp.task`
GetTaskReturned ==
    /\ a2aResp.kind = "result"
    /\ a2aResp.req.body.method = "GetTask"

----------------------------------------------------------------------------
(* Properties of a failed backend call                                     *)

\* the message handleChat sends when it catches `err`
ErrorEnvelope(u, err) == AgentOut("error", "Sorry, something went wrong: " \o err, u)

\* the step ends the loop of utterance u with the Error of the backend call
\* the loop was waiting for
BackendCallFailed(u) ==
    /\ loops[u].pc = "llm"
    /\ loopEvent'.kind = "fault"
    /\ loopEvent'.path = loops[u].path
    /\ loopEvent'.id = u

\* the same for the handler of task t
TaskBackendCallFailed(t) ==
    /\ calls[t].pc = "llm"
    /\ loopEvent'.kind = "fault"
    /\ loopEvent'.path = "task"
    /\ loopEvent'.id = t

\* C25: a failed backend call is never retried.  The step in which a backend
\* call fails ends the loop of its utterance: the failed call is the last
\* backend call counted for it, no tool call follows, and the failure is
\* sent as an error envelope (interactive channel) or returned as a failed
\* task (task endpoint); and while a loop is suspended every backend call it
\* has made was followed by a tool round, so none was made twice.
C25_FailedBackendCallIsNotRetried ==
    /\ [](\A c \in Suspended : c.llmCalls = c.rounds)
    /\ [](loopEvent.kind = "fault" /\ loopEvent.path \in AgentPaths =>
             loopEvent.llmCalls = loopEvent.rounds + 1)
    /\ [][\A u \in DOMAIN loops :
            BackendCallFailed(u) =>
               /\ u \notin DOMAIN loops'
               /\ loopEvent'.llmCalls = loops[u].llmCalls + 1
               /\ loopEvent'.toolTurns = loops[u].toolTurns
               /\ loops[u].path = "ws" =>
                     agentOut' = ErrorEnvelope(u, loopEvent'.said)]_vars
    /\ [][\A t \in DOMAIN calls :
            TaskBackendCallFailed(t) =>
               /\ t \notin DOMAIN calls'
               /\ loopEvent'.llmCalls = calls[t].llmCalls + 1
               /\ loopEvent'.toolTurns = calls[t].toolTurns
               /\ taskStore'[t].state = "failed"
               /\ a2aResp'.kind = "result"
               /\ a2aResp'.task = taskStore'[t]]_vars

\* on the interactive channel the second backend call of an utterance, made
\* after a tool round, failed and the error envelope was sent
C25_Witness ==
    /\ loopEvent.kind = "fault"
    /\ loopEvent.path = "ws"
    /\ loopEvent.llmCalls = 2
    /\ loopEvent.rounds = 1
    /\ loopEvent.toolTurns = 1
    /\ agentOut = ErrorEnvelope(loopEvent.id, "fetch failed")
    /\ loopEvent.id \notin DOMAIN loops

----------------------------------------------------------------------------
(* Properties of a failed utterance                                        *)

\* the turns of a history before its last user turn: for the local history
\* of a loop, this.state.messages as copied when the utterance arrived
BeforeLastUser(history) ==
    SubSeq(history, 1, Len(history) - Len(SinceLastUser(history)) - 1)

\* the step ends the loop of utterance u on the interactive channel with an
\* error envelope
InteractiveRunFailed(u) ==
    /\ loops[u].path = "ws"
    /\ loopEvent'.kind = "fault"
    /\ loopEvent'.path = "ws"
    /\ loopEvent'.id = u

\* the step in which a run fails on the interactive channel writes nothing
\* to the stored state, which holds neither the user turn of the utterance
\* nor a turn of an unfinished run
FailedRunRecordsNothing ==
    /\ [][\A u \in DOMAIN loops :
            InteractiveRunFailed(u) =>
               /\ agent'.messages = agent.messages
               /\ \A k \in 1..Len(agent'.messages) :
                     agent'.messages[k] /= UserTurn(u)]_vars
    /\ [](/\ ToolTurnsFollowRequests(agent.messages)
          /\ agent.messages /= <<>> =>
                /\ agent.messages[Len(agent.messages)].role = "assistant"
                /\ agent.messages[Len(agent.messages)].calls = 0)

\* C26: when processing an utterance fails on the interactive channel, the
\* stored conversation state is exactly what it was when the utterance
\* arrived.
C26_FailedRunLeavesStateAsAtArrival ==
    [][\A u \in DOMAIN loops :
          InteractiveRunFailed(u) =>
             agent'.messages = BeforeLastUser(loops[u].history)]_vars

----------------------------------------------------------------------------
(* Properties of the order of tool messages                                *)

\* the tool messages that the assistant message at i still lacks
Owed(history, i) == i + history[i].calls - Len(history)

\* after every assistant message that asks for tools stand tool messages
\* only, one for each tool call and with its identifier, in the order of
\* the tool calls, as far as the history goes; and no tool message stands
\* elsewhere
ToolTurnsInOrder(history) ==
    /\ \A i \in 1..Len(history) :
          history[i].calls > 0 =>
             /\ history[i].role = "assistant"
             /\ Len(history[i].ids) = history[i].calls
             /\ \A j \in 1..history[i].calls :
                   i + j <= Len(history) =>
                      /\ history[i + j].role = "tool"
                      /\ history[i + j].toolCallId = history[i].ids[j]
             /\ i + history[i].calls + 1 <= Len(history) =>
                   history[i + history[i].calls + 1].role /= "tool"
    /\ \A p \in 1..Len(history) :
          history[p].role = "tool" =>
             \E i \in 1..(p - 1) :
                /\ p - i <= history[i].calls
                /\ \A k \in (i + 1)..p : history[k].role = "tool"

\* the tool calls of a history that have no tool message yet
Pending(history) ==
    LET asking == { i \in 1..Len(history) :
                       history[i].calls > 0 /\ Owed(history, i) > 0 }
    IN  IF asking = {} THEN 0 ELSE Owed(history, CHOOSE i \in asking : TRUE)

\* C27: in one round the tool calls are run one at a time in the order of
\* the backend message, and each gets exactly one tool message with its
\* identifier, after the assistant message that asked for it and before the
\* next backend call: the local history of a suspended loop lacks the tool
\* messages of the call in flight and of those after it and of no other,
\* and lacks none while the backend is called; the tool messages a step
\* pushes carry the identifiers of the calls it went through, in order; and
\* in the persisted conversation every assistant message with tool calls is
\* followed by one tool message per call, in order, and the last turn is an
\* assistant message without tool calls.
C27_ToolTurnsInRequestOrder ==
    /\ \A u \in DOMAIN loops :
          /\ ToolTurnsInOrder(loops[u].history)
          /\ Pending(loops[u].history) = loops[u].todo
          /\ loops[u].pc = "llm" => Pending(loops[u].history) = 0
    /\ \A k \in 1..Len(loopEvent.turns) :
          loopEvent.turns[k].role = "tool" =>
             loopEvent.turns[k].toolCallId =
                ToolCallId(loopEvent.toolTurns - Len(loopEvent.turns) + k)
    /\ loopEvent.kind = "round" =>
          /\ loopEvent.turns[1].role = "assistant"
          /\ loopEvent.turns[1].calls > 0
          /\ \A k \in 2..Len(loopEvent.turns) :
                /\ loopEvent.turns[k].role = "tool"
                /\ loopEvent.turns[k].toolCallId = loopEvent.turns[1].ids[k - 1]
    /\ ToolTurnsInOrder(agent.messages)
    /\ Pending(agent.messages) = 0
    /\ agent.messages /= <<>> =>
          /\ agent.messages[Len(agent.messages)].role = "assistant"
          /\ agent.messages[Len(agent.messages)].calls = 0

\* a persisted conversation holds a round of two tool calls that were both
\* run: the assistant message is followed by the tool message of the first
\* call and then by that of the second, and the answer turn comes last
C27_Witness ==
    \E i \in 1..Len(agent.messages) :
       /\ agent.messages[i].calls = 2
       /\ agent.messages[i + 1].toolCallId = agent.messages[i].ids[1]
       /\ agent.messages[i + 2].toolCallId = agent.messages[i].ids[2]
       /\ agent.messages[i].ids[1] /= agent.messages[i].ids[2]
       /\ agent.messages[i + 1].content /= ParseErrorTurn(1).content
       /\ agent.messages[i + 2].content /= ParseErrorTurn(2).content
       /\ agent.messages[i + 3].role = "assistant"
       /\ agent.messages[i + 3].calls = 0
       /\ i + 3 = Len(agent.messages)

----------------------------------------------------------------------------
(* Properties of the number of executions of a tool call                   *)

\* how many times dispatchTool was called for the tool call of `run`: by
\* handleToolCall when the gateway was reached and has the tool in its
\* catalog, and by the catch of executeTool
ExecutorRuns(run) ==
    (IF run.net = "served" /\ run.name \in McpToolNames THEN 1 ELSE 0)
       + (IF run.direct /= NoOutcome THEN 1 ELSE 0)

\* C28: each tool call the backend asks for makes the executor of the tool,
\* and so the lookup at the data source, run at most once: a tool that ran
\* at the gateway and failed is not run a second time.
C28_ExecutorRunsAtMostOnce ==
    loopEvent.kind = "tool" => ExecutorRuns(loopEvent.tool) <= 1

----------------------------------------------------------------------------
(* Properties of the envelopes of the interactive channel                  *)

IsPipeline(e) == e.type = "pipeline"

\* the progress events among the envelopes sent
Progress(sent) == SelectSeq(sent, IsPipeline)

\* how many times envelope e stands in seq
Count(seq, e) == Cardinality({ i \in 1..Len(seq) : seq[i] = e })

\* the progress events that may come right after progress event e
MayFollow(e) ==
    CASE e = sendPipeline("agent", "active") -> {sendPipeline("llm", "active")}
      [] e = sendPipeline("llm", "active") ->
            {sendPipeline("mcp", "active"), sendPipeline("done", "complete")}
      [] e = sendPipeline("mcp", "active") -> {sendPipeline("tools", "active")}
      [] e = sendPipeline("tools", "active") -> {sendPipeline("tools", "complete")}
      [] e = sendPipeline("tools", "complete") ->
            {sendPipeline("tools", "active"), sendPipeline("llm", "active")}
      [] OTHER -> {}

\* agent active comes first and only there, every event is followed as
\* MayFollow says, so that done is followed by nothing; done is the last
\* event of a finished utterance and is not among those of an unfinished one
ProgressInOrder(events, finished) ==
    /\ events /= <<>>
    /\ \A i \in 1..Len(events) :
          /\ events[i] = sendPipeline("agent", "active") <=> i = 1
          /\ i < Len(events) => events[i + 1] \in MayFollow(events[i])
    /\ finished <=> events[Len(events)] = sendPipeline("done", "complete")
    /\ Count(events, sendPipeline("done", "complete")) = (IF finished THEN 1 ELSE 0)

\* C29: the progress events of one utterance on the interactive channel
\* come in this order: agent active first; llm active before every backend
\* call, as many as backend calls; in every tool round mcp active and then,
\* for each tool call, tools active followed by tools complete; and done
\* exactly once and after every other progress event, when the utterance is
\* answered and when it fails.
C29_ProgressEventsInOrder ==
    /\ \A u \in DOMAIN loops :
          IF loops[u].path = "ws"
          THEN LET events == Progress(loops[u].sent)
               IN  /\ ProgressInOrder(events, FALSE)
                   /\ Count(events, sendPipeline("mcp", "active")) = loops[u].rounds
                   /\ Count(events, sendPipeline("tools", "complete"))
                         = loops[u].toolTurns
                   /\ IF loops[u].todo = 0
                      THEN /\ events[Len(events)] = sendPipeline("llm", "active")
                           /\ Count(events, sendPipeline("llm", "active"))
                                 = loops[u].llmCalls + 1
                           /\ Count(events, sendPipeline("tools", "active"))
                                 = loops[u].toolTurns
                      ELSE /\ events[Len(events)] = sendPipeline("tools", "active")
                           /\ Count(events, sendPipeline("llm", "active"))
                                 = loops[u].llmCalls
                           /\ Count(events, sendPipeline("tools", "active"))
                                 = loops[u].toolTurns + 1
          ELSE loops[u].sent = <<>>
    /\ (loopEvent.path = "ws" /\ loopEvent.kind \in {"answer", "fault"}) =>
          LET events == Progress(loopEvent.sent)
          IN  /\ ProgressInOrder(events, TRUE)
              /\ Count(events, sendPipeline("llm", "active")) = loopEvent.llmCalls
              /\ Count(events, sendPipeline("mcp", "active")) = loopEvent.rounds
              /\ Count(events, sendPipeline("tools", "active")) = loopEvent.toolTurns
              /\ Count(events, sendPipeline("tools", "complete")) = loopEvent.toolTurns

\* an utterance on the interactive channel failed at the backend call made
\* after a round with one tool call: done was sent once, last
C29_Witness ==
    /\ loopEvent.path = "ws"
    /\ loopEvent.kind = "fault"
    /\ Progress(loopEvent.sent) =
          <<sendPipeline("agent", "active"), sendPipeline("llm", "active"),
            sendPipeline("mcp", "active"), sendPipeline("tools", "active"),
            sendPipeline("tools", "complete"), sendPipeline("llm", "active"),
            sendPipeline("done", "complete")>>

IsAnswer(e) == e.type \in {"response", "error"}

\* the envelopes sent that carry an answer
Answers(sent) == SelectSeq(sent, IsAnswer)

\* C30: for each chat utterance handled on the interactive channel exactly
\* one envelope that carries an answer is sent, a response or an error and
\* never both, and it is the last envelope sent for the utterance: none is
\* sent while the utterance is processed, the step that ends the processing
\* sends one, after every other envelope, and processing ends in no other
\* way.
C30_OneAnswerEnvelopeLast ==
    /\ [](\A u \in DOMAIN loops : Answers(loops[u].sent) = <<>>)
    /\ []((loopEvent.path = "ws" /\ loopEvent.kind \in {"answer", "fault"}) =>
             LET type == IF loopEvent.kind = "answer" THEN "response" ELSE "error"
             IN  /\ Answers(loopEvent.sent) = <<Envelope(type)>>
                 /\ loopEvent.sent[Len(loopEvent.sent)] = Envelope(type)
                 /\ agentOut.type = type
                 /\ agentOut.to = loopEvent.id
                 /\ loopEvent.id \notin DOMAIN loops)
    /\ [][\A u \in DOMAIN loops :
            (loops[u].path = "ws" /\ u \notin DOMAIN loops') =>
               /\ loopEvent'.path = "ws"
               /\ loopEvent'.id = u
               /\ loopEvent'.kind \in {"answer", "fault"}]_vars

\* an utterance on the interactive channel was answered after a tool round:
\* the response envelope is the only answer and the last envelope sent
C30_Witness ==
    /\ loopEvent.path = "ws"
    /\ loopEvent.kind = "answer"
    /\ loopEvent.rounds = 1
    /\ agentOut.type = "response"
    /\ Answers(loopEvent.sent) = <<Envelope("response")>>
    /\ loopEvent.sent[Len(loopEvent.sent)] = Envelope("response")
    /\ loopEvent.sent[Len(loopEvent.sent) - 1] = sendPipeline("done", "complete")

----------------------------------------------------------------------------
(* Properties of the messages of the interactive channel                   *)

\* the text is a typed chat envelope: JSON of an object whose type is chat
IsChatEnvelope(text) ==
    /\ ~JSONparse(text).threw
    /\ JSONparse(text).value.kind = "object"
    /\ JSONparse(text).value.type = "chat"

\* a text message arrived: the latest step was onMessage with a string
TextReceived ==
    /\ loopEvent.kind \in {"chat", "dropped", "thrown"}
    /\ ~loopEvent.received.binary

\* C31: every text message on the interactive channel that is not a typed
\* chat envelope is handled as a chat utterance whose content is the raw
\* text, and no text message that is not empty is dropped without starting
\* an orchestration loop.
C31_RawTextIsChat ==
    TextReceived =>
       /\ ~IsChatEnvelope(loopEvent.received.text) =>
             (loopEvent.received.text /= "" =>
                /\ loopEvent.kind = "chat"
                /\ loopEvent.said = loopEvent.received.text)
       /\ loopEvent.received.text /= "" =>
             /\ loopEvent.kind = "chat"
             /\ loopEvent.id \in DOMAIN loops
             /\ loops[loopEvent.id].history[Len(loops[loopEvent.id].history)]
                   = UserTurn(loopEvent.id)

\* what holds of onMessage: a text that JSON.parse rejects, unless it is
\* empty, and a chat envelope with content start a loop with the raw text
\* or the content of the envelope
RejectedTextIsChat ==
    TextReceived =>
       /\ (JSONparse(loopEvent.received.text).threw /\ loopEvent.received.text /= "")
             => (loopEvent.kind = "chat" /\ loopEvent.said = loopEvent.received.text)
       /\ loopEvent.kind = "chat" =>
             /\ loopEvent.id \in DOMAIN loops
             /\ loops[loopEvent.id].path = "ws"
             /\ Truthy(loopEvent.said)

----------------------------------------------------------------------------
(* Properties of batches                                                   *)

\* the response entry of envelope e sent alone, `out` being what the tool
\* executor did if it ran: NullResponse for a notification
Alone(e, out) ==
    IF handleRpcMethod(e).st = "pending"
    THEN handleToolCallFinish(ResponseId(e), out)
    ELSE handleRpcMethod(e).res

\* the handler of a POST with a batch has ended, with a Response or by
\* throwing
BatchEnded == resp.req.body.kind = "batch" /\ resp.status /= 0

\* C32: every item of a batch is processed on its own: its response entry is
\* the response the item gets when it is sent alone, whatever the other
\* items are and whether they succeed or fail.
C32_BatchItemsAreIndependent ==
    BatchEnded =>
       \A i \in 1..Len(resp.req.body.items) :
          handleRpcMethod(resp.req.body.items[i]).st /= "thrown" =>
             /\ resp.bodyKind /= "thrown"
             /\ resp.results[i] = Alone(resp.req.body.items[i], resp.outs[i])
             /\ resp.results[i].tag /= "null" =>
                   \E k \in 1..Len(resp.body) : resp.body[k] = resp.results[i]

\* what holds of a batch: when the handler returns a Response, every entry
\* is the response of its item sent alone, and the entries stand in the
\* order of the items
AnsweredBatchIsIndependent ==
    (BatchEnded /\ resp.bodyKind /= "thrown") =>
       /\ \A i \in 1..Len(resp.req.body.items) :
             resp.results[i] = Alone(resp.req.body.items[i], resp.outs[i])
       /\ resp.body = SeqFilterNonNull(resp.results)

----------------------------------------------------------------------------
(* Properties of the tool catalogs                                         *)

\* the names a client or the backend can ask for
ToolNameUniverse ==
    McpToolNames \cup { TOOL_DEFINITIONS[i] : i \in 1..Len(TOOL_DEFINITIONS) }
       \cup {"delete_everything", "", Absent}

\* the names for which dispatchTool does not reach its default branch
DispatcherNames ==
    { n \in ToolNameUniverse :
         \A src \in DataSourceOutcomes : dispatchTool(n, "{barcode}", src) = src }

\* the names for which handleToolCall goes on to dispatchTool
GatewayPasses(n) ==
    handleToolCallStart("a", [has |-> TRUE, name |-> n, arguments |-> "{barcode}"])
       = PendingTool

\* C33: tools/list, the dispatcher and the static catalog have the same five
\* names, which are definitions of the modules and so never change; a name
\* that passes the check of handleToolCall never reaches the default branch
\* of dispatchTool, in any tools/call the gateway serves, and the static
\* catalog holds no name the gateway rejects.
C33_OneSetOfToolNames ==
    /\ Cardinality(McpToolNames) = 5
    /\ Len(MCP_TOOLS) = 5
    /\ Len(TOOL_DEFINITIONS) = 5
    /\ McpToolNames = DispatcherNames
    /\ McpToolNames = { TOOL_DEFINITIONS[i] : i \in 1..Len(TOOL_DEFINITIONS) }
    /\ \A n \in ToolNameUniverse : GatewayPasses(n) => n \in DispatcherNames
    /\ \A i \in 1..Len(TOOL_DEFINITIONS) : GatewayPasses(TOOL_DEFINITIONS[i])
    /\ \A i \in 1..Len(post.items) :
          post.items[i].ran =>
             /\ post.body.items[i].params.name \in DispatcherNames
             /\ post.items[i].st = "done" => post.items[i].out \in DataSourceOutcomes
    /\ \A i \in 1..Len(resp.outs) :
          resp.ran[i] => resp.outs[i] \in DataSourceOutcomes

\* the gateway has served a tools/call for a tool of the catalog: the
\* dispatcher ran it and the data source answered
C33_Witness ==
    /\ resp.status = 200
    /\ Len(resp.outs) = 1
    /\ resp.ran[1]
    /\ resp.req.body.items[1].method = "tools/call"
    /\ resp.req.body.items[1].params.name = "get_allergen_info"
    /\ resp.outs[1] \in DataSourceOutcomes

----------------------------------------------------------------------------
(* Properties of identifiers in responses                                  *)

\* the handler of a POST whose body parsed has ended, with a Response or by
\* throwing
PostEnded == resp.req.body.kind \in {"single", "batch"} /\ resp.status /= 0

\* the items of the request that are envelopes with identifier id
ItemsWithId(id) ==
    { i \in 1..Len(resp.req.body.items) :
         resp.req.body.items[i].shape = "object" /\ resp.req.body.items[i].id = id }

\* the entries of the response body with identifier id
EntriesWithId(id) == { k \in 1..Len(resp.body) : resp.body[k].id = id }

\* C34: every envelope that carries an identifier gets exactly one response
\* entry with that identifier, whatever its method: a request with an
\* identifier is not answered 202 without a body and is not left out of the
\* response of a batch.
C34_IdentifiedEnvelopeIsAnswered ==
    PostEnded =>
       \A id \in RpcIds :
          /\ Cardinality(EntriesWithId(id)) = Cardinality(ItemsWithId(id))
          /\ ItemsWithId(id) /= {} => resp.status = 200

\* what holds of identifiers: an envelope with an identifier whose method is
\* not one of the two notification methods gets exactly one entry with its
\* identifier whenever the handler returns a Response
IdentifiedRequestIsAnswered ==
    (PostEnded /\ resp.bodyKind /= "thrown") =>
       \A id \in RpcIds :
          Cardinality(EntriesWithId(id)) =
             Cardinality({ i \in ItemsWithId(id) :
                             resp.req.body.items[i].method \notin
                                {"notifications/initialized", "notifications/cancelled"} })

----------------------------------------------------------------------------
(* Properties of utterances in flight together                             *)

\* turn is a turn of history
HasTurn(history, turn) == \E k \in 1..Len(history) : history[k] = turn

\* C35: no turn of an utterance is lost: when an utterance is answered, the
\* persisted conversation holds its user turn and its final assistant turn
\* and still holds every turn it held before, those of the utterances
\* answered earlier, also when utterances are processed at the same time.
C35_NoTurnIsLost ==
    [][(loopEvent'.kind = "answer" /\ loopEvent'.path \in AgentPaths) =>
          /\ HasTurn(agent'.messages, UserTurn(loopEvent'.id))
          /\ agent'.messages[Len(agent'.messages)] = loopEvent'.turns[1]
          /\ \A k \in 1..Len(agent.messages) :
                HasTurn(agent'.messages, agent.messages[k])]_vars

----------------------------------------------------------------------------
(* Properties of the handshake of McpClient                                *)

\* the step settles rpc("initialize") of the agent's client for loop u with
\* a result
AgentInitializeAnswered(u) ==
    /\ loops[u].pc \in {"initialize", "tool/initialize"}
    /\ u \in DOMAIN loops'
    /\ loops'[u].pc \in {"initialized", "tool/initialized"}

\* the step settles rpc("tools/list") or rpc("tools/call") of the agent's
\* client for loop u
AgentCatalogOrToolSent(u) ==
    /\ loops[u].pc \in {"tools/list", "tool/call"}
    /\ u \notin DOMAIN loops' \/ loops'[u] /= loops[u]

\* the client has had an answer of the gateway: the gateway sets the
\* Mcp-Session-Id header on every answer to a POST it accepts and rpc keeps
\* it, and initialize is the first request a client sends
HasBeenAnswered(client) == client.sessionId /= Absent

\* C36: before a client sends tools/list or tools/call it has sent exactly
\* one initialize request and one initialized notification that were
\* answered, and it holds one session for its lifetime: a tools/list or
\* tools/call is sent by an initialized client only, an initialize request
\* that is answered is the first request of the client that is answered,
\* and a session identifier the client holds is never replaced; also with
\* calls in flight together and after a handshake that failed.
C36_OneHandshakePerClient ==
    /\ [][\A u \in DOMAIN loops :
            /\ AgentCatalogOrToolSent(u) => agent.mcpClient.initialized
            /\ AgentInitializeAnswered(u) => ~HasBeenAnswered(agent.mcpClient)]_vars
    /\ [][HasBeenAnswered(agent.mcpClient) =>
             agent'.mcpClient.sessionId = agent.mcpClient.sessionId]_vars
    /\ [][\A t \in DOMAIN calls :
            /\ (calls[t].pc \in {"tools/list", "tool"}) => calls[t].client.initialized
            /\ (calls[t].pc = "initialize" /\ t \in DOMAIN calls')
                  => ~HasBeenAnswered(calls[t].client)
            /\ (HasBeenAnswered(calls[t].client) /\ t \in DOMAIN calls')
                  => calls'[t].client.sessionId = calls[t].client.sessionId]_vars

\* what holds of the handshake: tools/list and tools/call are sent by an
\* initialized client only, the session a client holds is not replaced, and
\* the client of a SendMessage makes one handshake
HandshakeBeforeTools ==
    /\ [][\A u \in DOMAIN loops :
            AgentCatalogOrToolSent(u) => agent.mcpClient.initialized]_vars
    /\ [][HasBeenAnswered(agent.mcpClient) =>
             agent'.mcpClient.sessionId = agent.mcpClient.sessionId]_vars
    /\ [][\A t \in DOMAIN calls :
            /\ (calls[t].pc \in {"tools/list", "tool"}) => calls[t].client.initialized
            /\ (calls[t].pc = "initialize" /\ t \in DOMAIN calls')
                  => ~HasBeenAnswered(calls[t].client)
            /\ (HasBeenAnswered(calls[t].client) /\ t \in DOMAIN calls')
                  => calls'[t].client.sessionId = calls[t].client.sessionId]_vars

----------------------------------------------------------------------------
(* Properties of a SendMessage without text                                *)

\* no part is a text part with anything but white space in it
NoNonBlankText(parts) ==
    \A i \in 1..Len(parts) :
       parts[i].kind = "text" => parts[i].text \in {"", " ", "\n"}

\* the request is a SendMessage that reaches the dispatch and whose message
\* has no text
SendMessageWithoutText(req) ==
    /\ Dispatched(req, "SendMessage")
    /\ req.body.params.has
    /\ NoNonBlankText(req.body.params.parts)

\* C37: a SendMessage whose message has no text part that is not blank is
\* answered with a JSON-RPC error and creates no task: the step that
\* handles it leaves the task store as it was, suspends no handler and
\* calls neither the backend nor the gateway nor a tool.
C37_SendMessageWithoutTextIsRejected ==
    /\ []((SendMessageWithoutText(a2aResp.req) /\ a2aResp.status /= 0) =>
             /\ a2aResp.status = 200
             /\ a2aResp.kind = "error"
             /\ a2aResp.code = -32000
             /\ a2aResp.message = "Message must contain at least one text part"
             /\ a2aResp.id = a2aResp.req.body.id
             /\ a2aResp.task = NoTask)
    /\ [][(SendMessageWithoutText(a2aResp'.req) /\ a2aResp' /= a2aResp) =>
             /\ a2aResp'.status /= 0
             /\ taskStore' = taskStore
             /\ calls' = calls
             /\ a2aSent' = a2aSent
             /\ sessions' = sessions
             /\ uuidCount' = uuidCount
             /\ loopEvent' = NoLoopEvent]_vars

\* a SendMessage with two blank text parts was answered with the error
\* while a task was in the store
C37_Witness ==
    /\ SendMessageWithoutText(a2aResp.req)
    /\ Len(a2aResp.req.body.params.parts) = 2
    /\ a2aResp.kind = "error"
    /\ a2aResp.code = -32000
    /\ DOMAIN taskStore /= {}

----------------------------------------------------------------------------
(* Properties of the two chat paths                                        *)

\* the turns the latest step pushed to the history of loop u
Pushed(u) ==
    IF loopEvent'.kind \in {"round", "tool"} /\ loopEvent'.id = u
    THEN loopEvent'.turns ELSE <<>>

\* the step of loop u keeps the loop suspended: the conversation state is
\* as it was, the history grows by what the backend or the tool settled
\* with, and a round is entered below the ceiling of either path
SameWhileSuspended(u) ==
    /\ agent'.messages = agent.messages
    /\ loops'[u].path = loops[u].path
    /\ loops'[u].history = loops[u].history \o Pushed(u)
    /\ loops'[u].llmCalls =
          loops[u].llmCalls + (IF loopEvent'.kind = "round" THEN 1 ELSE 0)
    /\ loops'[u].toolTurns = loops[u].toolTurns + ToolTurns(Pushed(u))
    /\ loopEvent'.kind = "round" =>
          \A p \in AgentPaths : loops[u].rounds < LoopCeiling(p)

\* the step ends loop u: with an answer the conversation state is the
\* history and the final turn, and a backend that still asks for tools is
\* answered at the ceiling of either path; with a fault it is as it was
SameAtTheEnd(u) ==
    /\ loopEvent'.kind \in {"answer", "fault"}
    /\ loopEvent'.id = u
    /\ loopEvent'.path = loops[u].path
    /\ loopEvent'.llmCalls = loops[u].llmCalls + 1
    /\ loopEvent'.rounds = loops[u].rounds
    /\ loopEvent'.requested = loops[u].requested
    /\ loopEvent'.toolTurns = loops[u].toolTurns
    /\ loopEvent'.kind = "fault" => agent'.messages = agent.messages
    /\ loopEvent'.kind = "answer" =>
          /\ Len(agent'.messages) = Len(loops[u].history) + 1
          /\ SubSeq(agent'.messages, 1, Len(loops[u].history)) = loops[u].history
          /\ agent'.messages[Len(agent'.messages)].role = "assistant"
          /\ agent'.messages[Len(agent'.messages)].content =
                (IF loopEvent'.said = Absent THEN "" ELSE loopEvent'.said)
          /\ loopEvent'.pending > 0 =>
                \A p \in AgentPaths : loops[u].rounds = LoopCeiling(p)

============================================================================
